---- MODULE Spec2Model ----
(***************************************************************************)
(* A model of the lockers package: an Inventory of lockers grouped into    *)
(* size classes, the containment relation between the classes, the         *)
(* incrementally maintained VirtualCapacity of every class, the selection  *)
(* of a class for a package, and the deposit / retrieve operations.        *)
(*                                                                         *)
(* Conventions.                                                            *)
(*  - A Go pointer that may be nil is a sequence of length 0 (nil) or 1.   *)
(*  - A *Package is the pair [Id, Size] naming the caller's object; its    *)
(*    mutable field StoredIn is the variable StoredIn[p].                  *)
(*  - A *Locker is <<"inv", i>> for &inv.Lockers[i], or <<"standalone", 0>>*)
(*    for a Locker value the caller owns outside any Inventory.            *)
(*  - Positions in inv.Lockers are 1-based here (Go: 0-based).             *)
(*  - A Go map is a TLA+ function; the order in which `range` visits a map *)
(*    is an explicit argument (a sequence of its keys), chosen freely.     *)
(*  - The repository holds two source files of the package.  They agree on *)
(*    everything but DepositPackage and RetrievePackageInternal; the       *)
(*    variable build says which file the program was built from, and the   *)
(*    definitions ending in _lockers_go are those of src/lockers.go.       *)
(***************************************************************************)
EXTENDS Integers, Sequences, FiniteSets, TLC

(***************************************************************************)
(* Bounds of the model.                                                    *)
(***************************************************************************)
\* largest count an input key of NewInventory carries
MaxCount == 1
\* largest number of keys in an arbitrary input map of NewInventory
MaxKeys == 2
\* largest number of direct calls of the internal primitives in one run
MaxCalls == 2
\* number of bits of an int (Go: 32 or 64; two's complement at any width)
IntBits == 4
\* largest dimension of the pairs of SizeSpecs Contains is compared on
MaxDim == 3

(***************************************************************************)
(* SizeSpec                                                                *)
(***************************************************************************)
SS(l, w, h) == [Length |-> l, Width |-> w, Height |-> h]

\* the least and the greatest int
MinInt == 0 - 2^(IntBits - 1)
MaxInt == 2^(IntBits - 1) - 1

\* the int an arithmetic result x is stored as
Wrap(x) == ((x - MinInt) % 2^IntBits) + MinInt

\* Normalize, first half: a negative dimension x becomes 0 - x
MakePositive(x) == IF x < 0 THEN Wrap(0 - x) ELSE x

\* a bubble sort without its last exchange
Exchange3_Omitted(l, w, h) == SS(l, w, h)

\* Normalize, third exchange of the bubble sort: Height and Width
Exchange3(l, w, h) == IF h > w THEN SS(l, h, w) ELSE SS(l, w, h)

\* Normalize, second exchange of the bubble sort: Width and Length
Exchange2(l, w, h) == IF w > l THEN Exchange3(w, l, h) ELSE Exchange3(l, w, h)

\* Normalize, first exchange of the bubble sort: Height and Width
Exchange1(l, w, h) == IF h > w THEN Exchange2(l, h, w) ELSE Exchange2(l, w, h)

\* SizeSpec.Normalize: three sign flips, then the 3 element bubble sort
Normalize(spec) ==
    Exchange1(MakePositive(spec.Length), MakePositive(spec.Width), MakePositive(spec.Height))

\* SizeSpec.Volume
Volume(spec) == spec.Length * spec.Width * spec.Height

\* a containment that lets the inner box be turned
Contains_AnyRotation(spec, other) ==
    /\ Normalize(spec).Length >= Normalize(other).Length
    /\ Normalize(spec).Width >= Normalize(other).Width
    /\ Normalize(spec).Height >= Normalize(other).Height

\* SizeSpec.Contains
Contains(spec, other) ==
    /\ spec.Length >= other.Length
    /\ spec.Width >= other.Width
    /\ spec.Height >= other.Height

(***************************************************************************)
(* Errors, as the strings the code passes to errors.New                    *)
(***************************************************************************)
ErrNil == "nil"
ErrLockerNotEmpty == "Locker is not empty"
ErrAlreadyInLocker == "Package already in locker"
ErrFetchEmpty == "Tried to fetch from empty locker"
ErrNoLockers == "No available lockers which can fit package"
ErrDuplicate == "Duplicate package ID"
ErrNotKnown == "Package ID not known"
\* a run-time panic (nil pointer dereference, index out of range)
Panic == "panic"

(***************************************************************************)
(* Inputs                                                                  *)
(***************************************************************************)
\* keys a caller may put into the map given to NewInventory (raw, possibly
\* denormalized or negative)
RawSizes ==
    { SS(1, 1, 1), SS(4, 1, 1), SS(1, -4, 1) }

\* the package objects of the caller: two that share an identifier, and a third
PackageIds == { "p", "q" }
PackageSizes == { SS(1, 1, 1), SS(1, -1, 2) }
Packages ==
    { [Id |-> "p", Size |-> SS(1, 1, 1)],
      [Id |-> "p", Size |-> SS(1, -1, 2)],
      [Id |-> "q", Size |-> SS(1, -1, 2)] }

\* all sequences that list every element of S exactly once
RECURSIVE Perms(_)
Perms(S) ==
    IF S = {} THEN { <<>> }
    ELSE UNION { { <<x>> \o p : p \in Perms(S \ {x}) } : x \in S }

\* key sets of three classes that are always among the inputs: a chain
\* (each class inside the next), and two incomparable classes of equal
\* volume inside a third
ScenarioKeys ==
    { { SS(1, 1, 1), SS(5, 1, 1), SS(5, 5, 5) },
      { SS(4, 1, 1), SS(2, 2, 1), SS(4, 4, 4) } }

\* the input maps of NewInventory within the bounds: every map of at most
\* MaxKeys keys with counts 0..MaxCount, and every map over a scenario key
\* set with counts 1..MaxCount
InputMaps ==
    UNION ( { [K -> 0..MaxCount] : K \in { K \in SUBSET RawSizes : Cardinality(K) <= MaxKeys } }
            \cup { [K -> 1..MaxCount] : K \in ScenarioKeys } )

(***************************************************************************)
(* LockerControlSpec, Locker                                               *)
(***************************************************************************)
\* LockerControlSpec.Full
Full(lcs) == Len(lcs.Lockers) = 0

\* the identifier uuid.NewString() hands to the locker created at position i
NewUuid(i) == <<"uuid", i>>

RECURSIVE SumFree(_, _)
\* sum of the free-list lengths of the classes listed in ids
SumFree(Control, ids) ==
    IF ids = <<>> THEN 0
    ELSE Len(Control[Head(ids)].Lockers) + SumFree(Control, Tail(ids))

(***************************************************************************)
(* NewInventory                                                            *)
(***************************************************************************)
RECURSIVE AddLockers_OneShort(_, _, _)
\* an inner loop that stops one locker early
AddLockers_OneShort(st, size_id, count) ==
    IF count <= 1 THEN st
    ELSE AddLockers_OneShort(
           [st EXCEPT
              !.Lockers = Append(@, [Id |-> NewUuid(Len(st.Lockers) + 1),
                                     SizeId |-> size_id, Contents |-> <<>>]),
              !.LockersById = @ @@ (NewUuid(Len(st.Lockers) + 1) :> Len(st.Lockers) + 1),
              !.Control[size_id].Lockers = Append(@, Len(st.Lockers) + 1)],
           size_id, count - 1)

RECURSIVE AddLockers(_, _, _)
\* the inner loop of the first pass: count new lockers of class size_id
AddLockers(st, size_id, count) ==
    IF count <= 0 THEN st
    ELSE LET index == Len(st.Lockers) + 1
             id == NewUuid(index)
         IN  AddLockers(
               [st EXCEPT
                  !.Lockers = Append(@, [Id |-> id, SizeId |-> size_id, Contents |-> <<>>]),
                  !.LockersById = @ @@ (id :> index),
                  !.Control[size_id].Lockers = Append(@, index)],
               size_id, count - 1)

RECURSIVE BuildSizes_IdsFromZero(_, _, _)
\* a first pass that numbers the classes from 0
BuildSizes_IdsFromZero(st, locker_counts_by_size, order) ==
    IF order = <<>> THEN st
    ELSE IF Normalize(Head(order)) \in DOMAIN st.Sizes
      THEN BuildSizes_IdsFromZero(
             AddLockers(st, st.Sizes[Normalize(Head(order))],
                        locker_counts_by_size[Head(order)]),
             locker_counts_by_size, Tail(order))
    ELSE BuildSizes_IdsFromZero(
           AddLockers(
             [st EXCEPT
                !.sizes = Append(@, Normalize(Head(order))),
                !.Sizes = @ @@ (Normalize(Head(order)) :> Cardinality(DOMAIN st.Sizes)),
                !.Control = @ @@ (Cardinality(DOMAIN st.Sizes) :>
                    [SizeId |-> Cardinality(DOMAIN st.Sizes),
                     Size |-> Normalize(Head(order)),
                     BiggerThan |-> <<>>, SmallerThan |-> <<>>,
                     Lockers |-> <<>>, VirtualCapacity |-> 0])],
             Cardinality(DOMAIN st.Sizes), locker_counts_by_size[Head(order)]),
           locker_counts_by_size, Tail(order))

RECURSIVE BuildSizes_SkipsKnown(_, _, _)
\* a first pass that creates no lockers for a key whose size is known already
BuildSizes_SkipsKnown(st, locker_counts_by_size, order) ==
    IF order = <<>> THEN st
    ELSE IF Normalize(Head(order)) \in DOMAIN st.Sizes
      THEN BuildSizes_SkipsKnown(st, locker_counts_by_size, Tail(order))
    ELSE BuildSizes_SkipsKnown(
           AddLockers(
             [st EXCEPT
                !.sizes = Append(@, Normalize(Head(order))),
                !.Sizes = @ @@ (Normalize(Head(order)) :> Cardinality(DOMAIN st.Sizes) + 1),
                !.Control = @ @@ ((Cardinality(DOMAIN st.Sizes) + 1) :>
                    [SizeId |-> Cardinality(DOMAIN st.Sizes) + 1,
                     Size |-> Normalize(Head(order)),
                     BiggerThan |-> <<>>, SmallerThan |-> <<>>,
                     Lockers |-> <<>>, VirtualCapacity |-> 0])],
             Cardinality(DOMAIN st.Sizes) + 1, locker_counts_by_size[Head(order)]),
           locker_counts_by_size, Tail(order))

RECURSIVE BuildSizes_StaleSizeId(_, _, _)
\* a first pass that writes the number of classes seen so far into SizeId
BuildSizes_StaleSizeId(st, locker_counts_by_size, order) ==
    IF order = <<>> THEN st
    ELSE IF Normalize(Head(order)) \in DOMAIN st.Sizes
      THEN BuildSizes_StaleSizeId(
             AddLockers(st, st.Sizes[Normalize(Head(order))],
                        locker_counts_by_size[Head(order)]),
             locker_counts_by_size, Tail(order))
    ELSE BuildSizes_StaleSizeId(
           AddLockers(
             [st EXCEPT
                !.sizes = Append(@, Normalize(Head(order))),
                !.Sizes = @ @@ (Normalize(Head(order)) :> Cardinality(DOMAIN st.Sizes) + 1),
                !.Control = @ @@ ((Cardinality(DOMAIN st.Sizes) + 1) :>
                    [SizeId |-> Cardinality(DOMAIN st.Sizes),
                     Size |-> Normalize(Head(order)),
                     BiggerThan |-> <<>>, SmallerThan |-> <<>>,
                     Lockers |-> <<>>, VirtualCapacity |-> 0])],
             Cardinality(DOMAIN st.Sizes) + 1, locker_counts_by_size[Head(order)]),
           locker_counts_by_size, Tail(order))

RECURSIVE BuildSizes(_, _, _)
\* the first pass of NewInventory, over the keys in the order `order`
BuildSizes(st, locker_counts_by_size, order) ==
    IF order = <<>> THEN st
    ELSE LET key == Head(order)
             count == locker_counts_by_size[key]
             size == Normalize(key)
             known == size \in DOMAIN st.Sizes
             size_id == IF known THEN st.Sizes[size] ELSE Cardinality(DOMAIN st.Sizes) + 1
             st1 == IF known THEN st
                    ELSE [st EXCEPT
                            !.sizes = Append(@, size),
                            !.Sizes = @ @@ (size :> size_id),
                            !.Control = @ @@ (size_id :>
                                [SizeId |-> size_id, Size |-> size,
                                 BiggerThan |-> <<>>, SmallerThan |-> <<>>,
                                 Lockers |-> <<>>, VirtualCapacity |-> 0])]
         IN  BuildSizes(AddLockers(st1, size_id, count), locker_counts_by_size, Tail(order))

\* a second pass that records a pair only when the earlier size is the bigger
RelatePair_OneWay(Control, Sizes, s1, s2) ==
    IF Contains(s1, s2)
      THEN [Control EXCEPT ![Sizes[s1]].BiggerThan = Append(@, Sizes[s2]),
                           ![Sizes[s2]].SmallerThan = Append(@, Sizes[s1])]
    ELSE Control

\* one step of the second pass: the pair (s1, s2) with s1 before s2 in sizes
RelatePair(Control, Sizes, s1, s2) ==
    IF Contains(s1, s2)
      THEN [Control EXCEPT ![Sizes[s1]].BiggerThan = Append(@, Sizes[s2]),
                           ![Sizes[s2]].SmallerThan = Append(@, Sizes[s1])]
    ELSE IF Contains(s2, s1)
      THEN [Control EXCEPT ![Sizes[s1]].SmallerThan = Append(@, Sizes[s2]),
                           ![Sizes[s2]].BiggerThan = Append(@, Sizes[s1])]
    ELSE Control

RECURSIVE Relate_AdjacentOnly(_, _, _, _, _)
\* a second pass that compares each size with its successor in sizes only
Relate_AdjacentOnly(Control, Sizes, sizes, i, j) ==
    IF j > Len(sizes) THEN Control
    ELSE Relate_AdjacentOnly(RelatePair(Control, Sizes, sizes[i], sizes[j]),
                             Sizes, sizes, i + 1, j + 1)

RECURSIVE Relate(_, _, _, _, _)
\* the second pass of NewInventory: all pairs i < j of sizes
Relate(Control, Sizes, sizes, i, j) ==
    IF i > Len(sizes) THEN Control
    ELSE IF j > Len(sizes) THEN Relate(Control, Sizes, sizes, i + 1, i + 2)
    ELSE Relate(RelatePair(Control, Sizes, sizes[i], sizes[j]), Sizes, sizes, i, j + 1)

\* a seeding that counts the free lockers of the class itself only
SeedVirtualCapacity_OwnOnly(Control) ==
    [c \in DOMAIN Control |->
        [Control[c] EXCEPT !.VirtualCapacity = @ + Len(Control[c].Lockers)]]

\* a seeding that sums over the classes a class contains instead
SeedVirtualCapacity_BiggerThan(Control) ==
    [c \in DOMAIN Control |->
        [Control[c] EXCEPT !.VirtualCapacity =
            @ + SumFree(Control, Control[c].BiggerThan) + Len(Control[c].Lockers)]]

\* the third pass of NewInventory: the virtual capacity of every class
SeedVirtualCapacity(Control) ==
    [c \in DOMAIN Control |->
        [Control[c] EXCEPT !.VirtualCapacity =
            @ + SumFree(Control, Control[c].SmallerThan) + Len(Control[c].Lockers)]]

\* NewInventory(locker_counts_by_size), the map being visited in `order`
NewInventory(locker_counts_by_size, order) ==
    LET st0 == [sizes |-> <<>>, Sizes |-> <<>>, Control |-> <<>>,
                Lockers |-> <<>>, LockersById |-> <<>>]
        st1 == BuildSizes(st0, locker_counts_by_size, order)
        ctl == Relate(st1.Control, st1.Sizes, st1.sizes, 1, 2)
    IN  [Lockers |-> st1.Lockers,
         Control |-> SeedVirtualCapacity(ctl),
         Sizes |-> st1.Sizes,
         LockersById |-> st1.LockersById,
         LockersByPackageId |-> <<>>]

(***************************************************************************)
(* State                                                                   *)
(***************************************************************************)
VARIABLES
    build,       \* the source file the program is built from
    inv,         \* the Inventory NewInventory returned
    StoredIn,    \* StoredIn[p]: the StoredIn field of the caller's package p
    standalone,  \* a Locker the caller owns outside the Inventory
    calls,       \* number of direct calls of the internal primitives so far
    last,        \* the call that produced this state: operation, arguments, results
    pre,         \* <<d>> while the last or the last but one call was a successful
                 \* DepositPackage: d holds inv and StoredIn as they were when that
                 \* call began, its package and the locker id it returned; likewise
                 \* for a successful AllocateLocker, with no package and the locker
                 \* index it returned; else <<>>
    callers      \* the goroutines that call DepositPackage at the same time: how
                 \* far each has got and its local variables; whether they
                 \* hold a lock around each call

vars == <<build, inv, StoredIn, standalone, calls, last, pre, callers>>

\* callers when every call runs from beginning to end on its own
NoCallers == <<>>

Builds == { "part_000", "lockers.go" }

StandaloneRef == <<"standalone", 0>>
InvRef(i) == <<"inv", i>>

\* pre after a call that is not a successful DepositPackage or AllocateLocker
KeepPre ==
    IF last.op \in { "DepositPackage", "AllocateLocker" } /\ last.err = ErrNil
      THEN pre ELSE <<>>

(***************************************************************************)
(* LockerSize.Before, Inventory.ControlSpec                                *)
(***************************************************************************)
\* Inventory.ControlSpec
ControlSpec(i, size_id) == i.Control[size_id]

\* a comparison that prefers the class with the fewest available spaces
Before_FewestFirst(id, other_id, i) ==
    \/ ControlSpec(i, id).VirtualCapacity < ControlSpec(i, other_id).VirtualCapacity
    \/ /\ ControlSpec(i, id).VirtualCapacity = ControlSpec(i, other_id).VirtualCapacity
       /\ Volume(ControlSpec(i, id).Size) < Volume(ControlSpec(i, other_id).Size)

\* a comparison that lets a class come before its equal
Before_TiesCount(id, other_id, i) ==
    \/ ControlSpec(i, id).VirtualCapacity > ControlSpec(i, other_id).VirtualCapacity
    \/ /\ ControlSpec(i, id).VirtualCapacity = ControlSpec(i, other_id).VirtualCapacity
       /\ Volume(ControlSpec(i, id).Size) <= Volume(ControlSpec(i, other_id).Size)

\* LockerSize.Before
Before(id, other_id, i) ==
    LET self == ControlSpec(i, id)
        other == ControlSpec(i, other_id)
    IN  IF self.VirtualCapacity > other.VirtualCapacity THEN TRUE
        ELSE IF /\ self.VirtualCapacity = other.VirtualCapacity
                /\ Volume(self.Size) < Volume(other.Size) THEN TRUE
        ELSE FALSE

(***************************************************************************)
(* Locker.Put, Locker.Fetch                                                *)
(***************************************************************************)
\* a Put that examines the package before the locker
Put_ChecksPackageFirst(l, ref, pkg, SI) ==
    IF SI[pkg] # <<>>
      THEN [l |-> l, StoredIn |-> SI, err |-> ErrAlreadyInLocker]
    ELSE IF l.Contents # <<>>
      THEN [l |-> l, StoredIn |-> SI, err |-> ErrLockerNotEmpty]
    ELSE [l |-> [l EXCEPT !.Contents = <<pkg>>],
          StoredIn |-> [SI EXCEPT ![pkg] = <<ref>>],
          err |-> ErrNil]

\* Locker.Put: l is the locker, ref the pointer to it, SI the StoredIn fields
Put(l, ref, pkg, SI) ==
    IF l.Contents # <<>>
      THEN [l |-> l, StoredIn |-> SI, err |-> ErrLockerNotEmpty]
    ELSE IF SI[pkg] # <<>>
      THEN [l |-> l, StoredIn |-> SI, err |-> ErrAlreadyInLocker]
    ELSE [l |-> [l EXCEPT !.Contents = <<pkg>>],
          StoredIn |-> [SI EXCEPT ![pkg] = <<ref>>],
          err |-> ErrNil]

\* a Fetch that forgets to clear the package's StoredIn
Fetch_KeepsStoredIn(l, SI) ==
    IF l.Contents = <<>>
      THEN [l |-> l, StoredIn |-> SI, pkg |-> <<>>, err |-> ErrFetchEmpty]
    ELSE [l |-> [l EXCEPT !.Contents = <<>>], StoredIn |-> SI,
          pkg |-> l.Contents, err |-> ErrNil]

\* a Fetch that hands the package out and leaves it in the locker
Fetch_KeepsContents(l, SI) ==
    IF l.Contents = <<>>
      THEN [l |-> l, StoredIn |-> SI, pkg |-> <<>>, err |-> ErrFetchEmpty]
    ELSE [l |-> l, StoredIn |-> [SI EXCEPT ![l.Contents[1]] = <<>>],
          pkg |-> l.Contents, err |-> ErrNil]

\* Locker.Fetch
Fetch(l, SI) ==
    IF l.Contents = <<>>
      THEN [l |-> l, StoredIn |-> SI, pkg |-> <<>>, err |-> ErrFetchEmpty]
    ELSE LET p == l.Contents[1]
         IN  [l |-> [l EXCEPT !.Contents = <<>>],
              StoredIn |-> [SI EXCEPT ![p] = <<>>],
              pkg |-> <<p>>, err |-> ErrNil]

(***************************************************************************)
(* GetMostSuitableLockerSize                                               *)
(***************************************************************************)
RECURSIVE CandidateSizes_FirstOnly(_, _, _)
\* a first loop that stops at the first class that fits
CandidateSizes_FirstOnly(i, package_size, order) ==
    IF order = <<>> THEN <<>>
    ELSE IF ~Contains(Head(order), package_size) \/ Full(i.Control[i.Sizes[Head(order)]])
      THEN CandidateSizes_FirstOnly(i, package_size, Tail(order))
    ELSE <<i.Sizes[Head(order)]>>

RECURSIVE CandidateSizes_ContainedBy(_, _, _)
\* a first loop that asks whether the package contains the locker
CandidateSizes_ContainedBy(i, package_size, order) ==
    IF order = <<>> THEN <<>>
    ELSE IF ~Contains(package_size, Head(order)) \/ Full(i.Control[i.Sizes[Head(order)]])
      THEN CandidateSizes_ContainedBy(i, package_size, Tail(order))
    ELSE <<i.Sizes[Head(order)]>> \o CandidateSizes_ContainedBy(i, package_size, Tail(order))

RECURSIVE CandidateSizes_IgnoreContains(_, _, _)
\* a first loop that keeps every class that is not full
CandidateSizes_IgnoreContains(i, package_size, order) ==
    IF order = <<>> THEN <<>>
    ELSE IF Full(i.Control[i.Sizes[Head(order)]])
      THEN CandidateSizes_IgnoreContains(i, package_size, Tail(order))
    ELSE <<i.Sizes[Head(order)]>> \o CandidateSizes_IgnoreContains(i, package_size, Tail(order))

RECURSIVE CandidateSizes(_, _, _)
\* the first loop: the classes that contain package_size and are not full,
\* in the order in which the map inv.Sizes is visited
CandidateSizes(i, package_size, order) ==
    IF order = <<>> THEN <<>>
    ELSE LET size == Head(order)
             size_id == i.Sizes[size]
             rest == CandidateSizes(i, package_size, Tail(order))
         IN  IF ~Contains(size, package_size) THEN rest
             ELSE IF Full(i.Control[size_id]) THEN rest
             ELSE <<size_id>> \o rest

\* a second loop that never replaces the first candidate
ChooseCandidate_KeepsFirst(i, chosen_id, ids) == chosen_id

\* a second loop that ends with the candidate visited last
ChooseCandidate_TakesLast(i, chosen_id, ids) ==
    IF ids = <<>> THEN chosen_id ELSE ids[Len(ids)]

RECURSIVE ChooseCandidate(_, _, _)
\* the second loop: keep the candidate that is Before the one chosen so far
ChooseCandidate(i, chosen_id, ids) ==
    IF ids = <<>> THEN chosen_id
    ELSE ChooseCandidate(i,
            IF Before(Head(ids), chosen_id, i) THEN Head(ids) ELSE chosen_id,
            Tail(ids))

\* a selection that reports an empty candidate list as an unknown package
GetMostSuitableLockerSize_NotKnown(i, package_size, order) ==
    IF Len(CandidateSizes(i, package_size, order)) = 0
      THEN [id |-> 0, err |-> ErrNotKnown]
      ELSE [id |-> ChooseCandidate(i, Head(CandidateSizes(i, package_size, order)),
                                   Tail(CandidateSizes(i, package_size, order))),
            err |-> ErrNil]

\* Inventory.GetMostSuitableLockerSize, the map inv.Sizes being visited in `order`
GetMostSuitableLockerSize(i, package_size, order) ==
    LET candidate_sizes == CandidateSizes(i, package_size, order)
    IN  IF Len(candidate_sizes) = 0
          THEN [id |-> 0, err |-> ErrNoLockers]
          ELSE [id |-> ChooseCandidate(i, Head(candidate_sizes), Tail(candidate_sizes)),
                err |-> ErrNil]

(***************************************************************************)
(* AdjustVirtualCapacity, AllocateLocker, DeallocateLocker                 *)
(***************************************************************************)
RECURSIVE AdjustEach(_, _, _)
\* the loop of AdjustVirtualCapacity over the listed classes
AdjustEach(Control, ids, by) ==
    IF ids = <<>> THEN Control
    ELSE AdjustEach([Control EXCEPT ![Head(ids)].VirtualCapacity = @ + by], Tail(ids), by)

\* an adjustment that forgets the related classes
AdjustVirtualCapacity_OwnOnly(i, size_id, by) ==
    [i EXCEPT !.Control[size_id].VirtualCapacity = @ + by]

\* an adjustment that walks SmallerThan instead of BiggerThan
AdjustVirtualCapacity_SmallerThan(i, size_id, by) ==
    [i EXCEPT !.Control =
        AdjustEach([i.Control EXCEPT ![size_id].VirtualCapacity = @ + by],
                   i.Control[size_id].SmallerThan, by)]

\* an adjustment that reaches every class
AdjustVirtualCapacity_AllClasses(i, size_id, by) ==
    [i EXCEPT !.Control =
        [c \in DOMAIN i.Control |-> [i.Control[c] EXCEPT !.VirtualCapacity = @ + by]]]

\* Inventory.AdjustVirtualCapacity (size_id in inv.Control)
AdjustVirtualCapacity(i, size_id, by) ==
    LET c1 == [i.Control EXCEPT ![size_id].VirtualCapacity = @ + by]
    IN  [i EXCEPT !.Control = AdjustEach(c1, i.Control[size_id].BiggerThan, by)]

\* an allocation that leaves the index in the free list
AllocateLocker_KeepsList(i, size_id) ==
    [inv |-> AdjustVirtualCapacity(i, size_id, -1),
     locker_index |-> i.Control[size_id].Lockers[Len(i.Control[size_id].Lockers)]]

\* Inventory.AllocateLocker (size_id in inv.Control, free list not empty)
AllocateLocker(i, size_id) ==
    LET ctrl == i.Control[size_id]
        locker_index == ctrl.Lockers[Len(ctrl.Lockers)]
        i1 == [i EXCEPT !.Control[size_id].Lockers = SubSeq(@, 1, Len(@) - 1)]
    IN  [inv |-> AdjustVirtualCapacity(i1, size_id, -1), locker_index |-> locker_index]

\* a deallocation that leaves the virtual capacities alone
DeallocateLocker_NoAdjust(i, locker_index) ==
    [i EXCEPT !.Control[i.Lockers[locker_index].SizeId].Lockers = Append(@, locker_index)]

\* a deallocation that returns every locker to the free list of class 1
DeallocateLocker_ToFirstClass(i, locker_index) ==
    AdjustVirtualCapacity(
      [i EXCEPT !.Control[1].Lockers = Append(@, locker_index)],
      i.Lockers[locker_index].SizeId, 1)

\* Inventory.DeallocateLocker
DeallocateLocker(i, locker_index) ==
    LET size_id == i.Lockers[locker_index].SizeId
        i1 == [i EXCEPT !.Control[size_id].Lockers = Append(@, locker_index)]
    IN  AdjustVirtualCapacity(i1, size_id, 1)

(***************************************************************************)
(* DepositPackage, RetrievePackage*                                        *)
(***************************************************************************)
\* Inventory.DepositPackage, the map inv.Sizes being visited in `order`
DepositPackage(i, SI, pkg, order) ==
    IF pkg.Id \in DOMAIN i.LockersByPackageId
      THEN [inv |-> i, StoredIn |-> SI, id |-> <<>>, err |-> ErrDuplicate]
    ELSE LET sel == GetMostSuitableLockerSize(i, Normalize(pkg.Size), order)
         IN  IF sel.err # ErrNil
               THEN [inv |-> i, StoredIn |-> SI, id |-> <<>>, err |-> sel.err]
             ELSE LET chosen_id == sel.id
                      ctrl == i.Control[chosen_id]
                      locker_index == ctrl.Lockers[Len(ctrl.Lockers)]
                      put == Put(i.Lockers[locker_index], InvRef(locker_index), pkg, SI)
                  IN  IF put.err # ErrNil
                        THEN [inv |-> i, StoredIn |-> SI, id |-> <<>>, err |-> put.err]
                      ELSE LET i1 == [i EXCEPT !.Lockers[locker_index] = put.l]
                               i2 == AllocateLocker(i1, chosen_id).inv
                               i3 == [i2 EXCEPT !.LockersByPackageId =
                                        (pkg.Id :> locker_index) @@ @]
                           IN  [inv |-> i3, StoredIn |-> put.StoredIn,
                                id |-> <<i3.Lockers[locker_index].Id>>, err |-> ErrNil]

\* Inventory.DepositPackage of src/lockers.go
DepositPackage_lockers_go(i, SI, pkg, order) ==
    IF pkg.Id \in DOMAIN i.LockersByPackageId
      THEN [inv |-> i, StoredIn |-> SI, id |-> <<>>, err |-> ErrDuplicate]
    ELSE LET sel == GetMostSuitableLockerSize(i, Normalize(pkg.Size), order)
         IN  IF sel.err # ErrNil
               THEN [inv |-> i, StoredIn |-> SI, id |-> <<>>, err |-> sel.err]
             ELSE LET a == AllocateLocker(i, sel.id)
                      locker_index == a.locker_index
                      \* the error Put returns is dropped
                      put == Put(a.inv.Lockers[locker_index], InvRef(locker_index), pkg, SI)
                      i1 == [a.inv EXCEPT !.Lockers[locker_index] = put.l]
                  IN  [inv |-> i1, StoredIn |-> put.StoredIn,
                       id |-> <<i1.Lockers[locker_index].Id>>, err |-> ErrNil]

\* DepositPackage of the file the program is built from
DepositPackageOf(b, i, SI, pkg, order) ==
    IF b = "lockers.go" THEN DepositPackage_lockers_go(i, SI, pkg, order)
    ELSE DepositPackage(i, SI, pkg, order)

\* Go's delete(m, k)
MapDelete(m, k) == [x \in DOMAIN m \ {k} |-> m[x]]

\* a retrieval that gives the locker back before it looks at the result of Fetch
RetrievePackageInternal_FreesFirst(i, SI, locker_index, ok) ==
    IF ~ok
      THEN [inv |-> i, StoredIn |-> SI, pkg |-> <<>>, err |-> ErrNotKnown]
    ELSE IF Fetch(i.Lockers[locker_index], SI).err # ErrNil
      THEN [inv |-> DeallocateLocker(i, locker_index), StoredIn |-> SI, pkg |-> <<>>,
            err |-> Fetch(i.Lockers[locker_index], SI).err]
    ELSE [inv |-> [DeallocateLocker(
                     [i EXCEPT !.Lockers[locker_index] = Fetch(@, SI).l], locker_index)
                   EXCEPT !.LockersByPackageId =
                     MapDelete(@, Fetch(i.Lockers[locker_index], SI).pkg[1].Id)],
          StoredIn |-> Fetch(i.Lockers[locker_index], SI).StoredIn,
          pkg |-> Fetch(i.Lockers[locker_index], SI).pkg, err |-> ErrNil]

\* a retrieval that leaves the package's entry in LockersByPackageId
RetrievePackageInternal_KeepsRegistry(i, SI, locker_index, ok) ==
    IF ~ok
      THEN [inv |-> i, StoredIn |-> SI, pkg |-> <<>>, err |-> ErrNotKnown]
    ELSE IF Fetch(i.Lockers[locker_index], SI).err # ErrNil
      THEN [inv |-> i, StoredIn |-> SI, pkg |-> <<>>,
            err |-> Fetch(i.Lockers[locker_index], SI).err]
    ELSE [inv |-> DeallocateLocker(
                    [i EXCEPT !.Lockers[locker_index] = Fetch(@, SI).l], locker_index),
          StoredIn |-> Fetch(i.Lockers[locker_index], SI).StoredIn,
          pkg |-> Fetch(i.Lockers[locker_index], SI).pkg, err |-> ErrNil]

\* a retrieval that reports an unknown identifier as an empty locker
RetrievePackageInternal_EmptyLocker(i, SI, locker_index, ok) ==
    IF ~ok
      THEN [inv |-> i, StoredIn |-> SI, pkg |-> <<>>, err |-> ErrFetchEmpty]
    ELSE IF Fetch(i.Lockers[locker_index], SI).err # ErrNil
      THEN [inv |-> i, StoredIn |-> SI, pkg |-> <<>>,
            err |-> Fetch(i.Lockers[locker_index], SI).err]
    ELSE [inv |-> [DeallocateLocker(
                     [i EXCEPT !.Lockers[locker_index] = Fetch(@, SI).l], locker_index)
                   EXCEPT !.LockersByPackageId =
                     MapDelete(@, Fetch(i.Lockers[locker_index], SI).pkg[1].Id)],
          StoredIn |-> Fetch(i.Lockers[locker_index], SI).StoredIn,
          pkg |-> Fetch(i.Lockers[locker_index], SI).pkg, err |-> ErrNil]

\* Inventory.RetrievePackageInternal
RetrievePackageInternal(i, SI, locker_index, ok) ==
    IF ~ok
      THEN [inv |-> i, StoredIn |-> SI, pkg |-> <<>>, err |-> ErrNotKnown]
    ELSE LET f == Fetch(i.Lockers[locker_index], SI)
         IN  IF f.err # ErrNil
               THEN [inv |-> i, StoredIn |-> SI, pkg |-> <<>>, err |-> f.err]
             ELSE LET i1 == [i EXCEPT !.Lockers[locker_index] = f.l]
                      i2 == DeallocateLocker(i1, locker_index)
                      i3 == [i2 EXCEPT !.LockersByPackageId = MapDelete(@, f.pkg[1].Id)]
                  IN  [inv |-> i3, StoredIn |-> f.StoredIn, pkg |-> f.pkg, err |-> ErrNil]

\* Inventory.RetrievePackageInternal of src/lockers.go
RetrievePackageInternal_lockers_go(i, SI, locker_index, ok) ==
    IF ~ok
      THEN [inv |-> i, StoredIn |-> SI, pkg |-> <<>>, err |-> ErrNotKnown]
    ELSE LET f == Fetch(i.Lockers[locker_index], SI)
         IN  IF f.err # ErrNil
               THEN [inv |-> i, StoredIn |-> SI, pkg |-> <<>>, err |-> f.err]
             ELSE LET i1 == [i EXCEPT !.Lockers[locker_index] = f.l]
                      i2 == DeallocateLocker(i1, locker_index)
                  IN  [inv |-> i2, StoredIn |-> f.StoredIn, pkg |-> f.pkg, err |-> ErrNil]

\* RetrievePackageInternal of the file the program is built from
RetrievePackageInternalOf(b, i, SI, locker_index, ok) ==
    IF b = "lockers.go" THEN RetrievePackageInternal_lockers_go(i, SI, locker_index, ok)
    ELSE RetrievePackageInternal(i, SI, locker_index, ok)

\* m[k] of a Go map with int values: the zero value when k is missing
MapIndex(m, k) == IF k \in DOMAIN m THEN m[k] ELSE 0

\* Inventory.RetrievePackageById
RetrievePackageById(b, i, SI, id) ==
    RetrievePackageInternalOf(b, i, SI, MapIndex(i.LockersByPackageId, id),
                              id \in DOMAIN i.LockersByPackageId)

\* Inventory.RetrievePackage
RetrievePackage(b, i, SI, pkg) == RetrievePackageById(b, i, SI, pkg.Id)

\* Inventory.RetrievePackageByLockerId
RetrievePackageByLockerId(b, i, SI, id) ==
    RetrievePackageInternalOf(b, i, SI, MapIndex(i.LockersById, id),
                              id \in DOMAIN i.LockersById)

(***************************************************************************)
(* Initial states: everything NewInventory can return within the bounds    *)
(***************************************************************************)
\* the state NewInventory leaves, for the build b and the input maps in maps
InitOf(b, maps) ==
    /\ build = b
    /\ \E m \in maps : \E order \in Perms(DOMAIN m) : inv = NewInventory(m, order)
    /\ StoredIn = [p \in Packages |-> <<>>]
    /\ standalone = [Id |-> <<"uuid", 0>>, SizeId |-> 0, Contents |-> <<>>]
    /\ calls = 0
    /\ last = [op |-> "NewInventory", arg |-> <<>>, err |-> ErrNil, ret |-> <<>>]
    /\ pre = <<>>
    /\ callers = NoCallers

Init == InitOf("part_000", InputMaps)

InitLockersGo == InitOf("lockers.go", InputMaps)

\* the scenario pools with MaxCount lockers in every class
InitPrimitives == InitOf("part_000", UNION { [K -> {MaxCount}] : K \in ScenarioKeys })

\* the locker identifiers a caller may present: every locker's, and one unknown
LockerIds == { NewUuid(k) : k \in 1..(Len(inv.Lockers) + 1) }

\* the sizes a caller may ask GetMostSuitableLockerSize about
RequestSizes == { Normalize(s) : s \in PackageSizes }

\* the orders in which a range over inv.Sizes may visit the map
SizeOrders == Perms(DOMAIN inv.Sizes)

(***************************************************************************)
(* The public operations, one action per call                              *)
(***************************************************************************)
DepositPackageCall ==
    \E pkg \in Packages : \E r \in { DepositPackageOf(build, inv, StoredIn, pkg, o) : o \in SizeOrders } :
      /\ inv' = r.inv
      /\ StoredIn' = r.StoredIn
      /\ last' = [op |-> "DepositPackage", arg |-> <<pkg>>, err |-> r.err, ret |-> r.id]
      /\ pre' = IF r.err = ErrNil
                  THEN << [inv |-> inv, StoredIn |-> StoredIn, pkg |-> pkg, id |-> r.id[1]] >>
                  ELSE KeepPre
      /\ UNCHANGED <<callers, build, standalone, calls>>

RetrievePackageCall ==
    \E pkg \in Packages :
      LET r == RetrievePackage(build, inv, StoredIn, pkg)
      IN  /\ inv' = r.inv
          /\ StoredIn' = r.StoredIn
          /\ last' = [op |-> "RetrievePackage", arg |-> <<pkg>>, err |-> r.err, ret |-> r.pkg]
          /\ pre' = KeepPre
          /\ UNCHANGED <<callers, build, standalone, calls>>

RetrievePackageByIdCall ==
    \E id \in PackageIds :
      LET r == RetrievePackageById(build, inv, StoredIn, id)
      IN  /\ inv' = r.inv
          /\ StoredIn' = r.StoredIn
          /\ last' = [op |-> "RetrievePackageById", arg |-> <<id>>, err |-> r.err,
                      ret |-> r.pkg]
          /\ pre' = KeepPre
          /\ UNCHANGED <<callers, build, standalone, calls>>

RetrievePackageByLockerIdCall ==
    \E id \in LockerIds :
      LET r == RetrievePackageByLockerId(build, inv, StoredIn, id)
      IN  /\ inv' = r.inv
          /\ StoredIn' = r.StoredIn
          /\ last' = [op |-> "RetrievePackageByLockerId", arg |-> <<id>>, err |-> r.err,
                      ret |-> r.pkg]
          /\ pre' = KeepPre
          /\ UNCHANGED <<callers, build, standalone, calls>>

GetMostSuitableLockerSizeCall ==
    \E package_size \in RequestSizes :
      \E r \in { GetMostSuitableLockerSize(inv, package_size, o) : o \in SizeOrders } :
        /\ last' = [op |-> "GetMostSuitableLockerSize", arg |-> <<package_size>>,
                    err |-> r.err, ret |-> <<r.id>>]
        /\ pre' = KeepPre
        /\ UNCHANGED <<callers, build, inv, StoredIn, standalone, calls>>

(***************************************************************************)
(* The internal primitives, called directly as the tests call them         *)
(***************************************************************************)
\* the values of `by` a direct AdjustVirtualCapacity call passes
Deltas == { -1, 1, 2 }

\* the class ids a caller may present: every class's, and one unknown
SizeIds == DOMAIN inv.Control \cup { Cardinality(DOMAIN inv.Control) + 1 }

\* a fault on every call
AllocateLockerPanics_Always(i, size_id) == TRUE

\* AllocateLocker faults before it changes anything: inv.Control[size_id] is
\* nil, or the index len(ctrl.Lockers) - 1 is out of range
AllocateLockerPanics(i, size_id) ==
    \/ size_id \notin DOMAIN i.Control
    \/ Len(i.Control[size_id].Lockers) = 0

\* DeallocateLocker faults on a position outside inv.Lockers
DeallocateLockerPanics(i, locker_index) ==
    locker_index \notin 1..Len(i.Lockers)

\* AdjustVirtualCapacity faults when inv.Control[size_id] is nil
AdjustVirtualCapacityPanics(i, size_id) ==
    size_id \notin DOMAIN i.Control

AllocateLockerCall ==
    /\ calls < MaxCalls
    /\ \E size_id \in SizeIds :
         /\ IF AllocateLockerPanics(inv, size_id)
              THEN /\ inv' = inv
                   /\ last' = [op |-> "AllocateLocker", arg |-> <<size_id>>,
                               err |-> Panic, ret |-> <<>>]
              ELSE LET r == AllocateLocker(inv, size_id)
                   IN  /\ inv' = r.inv
                       /\ last' = [op |-> "AllocateLocker", arg |-> <<size_id>>,
                                   err |-> ErrNil, ret |-> <<r.locker_index>>]
         /\ calls' = calls + 1
         /\ pre' = IF AllocateLockerPanics(inv, size_id) THEN KeepPre
                   ELSE << [inv |-> inv, StoredIn |-> StoredIn, pkg |-> <<>>,
                            id |-> AllocateLocker(inv, size_id).locker_index] >>
         /\ UNCHANGED <<callers, build, StoredIn, standalone>>

DeallocateLockerCall ==
    /\ calls < MaxCalls
    /\ \E locker_index \in 1..(Len(inv.Lockers) + 1) :
         /\ IF DeallocateLockerPanics(inv, locker_index)
              THEN /\ inv' = inv
                   /\ last' = [op |-> "DeallocateLocker", arg |-> <<locker_index>>,
                               err |-> Panic, ret |-> <<>>]
              ELSE /\ inv' = DeallocateLocker(inv, locker_index)
                   /\ last' = [op |-> "DeallocateLocker", arg |-> <<locker_index>>,
                               err |-> ErrNil, ret |-> <<>>]
         /\ calls' = calls + 1
         /\ pre' = KeepPre
         /\ UNCHANGED <<callers, build, StoredIn, standalone>>

AdjustVirtualCapacityCall ==
    /\ calls < MaxCalls
    /\ \E size_id \in SizeIds : \E by \in Deltas :
         /\ IF AdjustVirtualCapacityPanics(inv, size_id)
              THEN /\ inv' = inv
                   /\ last' = [op |-> "AdjustVirtualCapacity", arg |-> <<size_id, by>>,
                               err |-> Panic, ret |-> <<>>]
              ELSE /\ inv' = AdjustVirtualCapacity(inv, size_id, by)
                   /\ last' = [op |-> "AdjustVirtualCapacity", arg |-> <<size_id, by>>,
                               err |-> ErrNil, ret |-> <<>>]
         /\ calls' = calls + 1
         /\ pre' = KeepPre
         /\ UNCHANGED <<callers, build, StoredIn, standalone>>

(***************************************************************************)
(* Locker.Put and Locker.Fetch called directly, on the caller's own locker *)
(* as in Example_Locker_PutFetch                                           *)
(***************************************************************************)
\* the lockers a caller calls Put and Fetch on
CallerLockers == { StandaloneRef }

\* every locker: the caller's own and those of the pool
LockerRefs == { StandaloneRef } \cup { InvRef(k) : k \in 1..Len(inv.Lockers) }

\* the locker a pointer refers to
LockerAt(ref) == IF ref = StandaloneRef THEN standalone ELSE inv.Lockers[ref[2]]

\* the state after the locker ref points to has become l
StoreLocker(ref, l) ==
    IF ref = StandaloneRef
      THEN standalone' = l /\ inv' = inv
      ELSE standalone' = standalone /\ inv' = [inv EXCEPT !.Lockers[ref[2]] = l]

PutCall ==
    \E ref \in CallerLockers : \E pkg \in Packages :
      \E r \in { Put(LockerAt(ref), ref, pkg, StoredIn) } :
        /\ StoreLocker(ref, r.l)
        /\ StoredIn' = r.StoredIn
        /\ last' = [op |-> "Put", arg |-> <<ref, pkg>>, err |-> r.err, ret |-> <<>>]
        /\ pre' = KeepPre
        /\ UNCHANGED <<callers, build, calls>>

FetchCall ==
    \E ref \in CallerLockers :
      \E r \in { Fetch(LockerAt(ref), StoredIn) } :
        /\ StoreLocker(ref, r.l)
        /\ StoredIn' = r.StoredIn
        /\ last' = [op |-> "Fetch", arg |-> <<ref>>, err |-> r.err, ret |-> r.pkg]
        /\ pre' = KeepPre
        /\ UNCHANGED <<callers, build, calls>>

(***************************************************************************)
(* Specifications                                                          *)
(***************************************************************************)
Next ==
    \/ DepositPackageCall
    \/ RetrievePackageCall
    \/ RetrievePackageByIdCall
    \/ RetrievePackageByLockerIdCall
    \/ GetMostSuitableLockerSizeCall

NextPrimitives ==
    \/ AllocateLockerCall
    \/ DeallocateLockerCall
    \/ AdjustVirtualCapacityCall

\* the public operations of src/unnamed/part_000
Spec == Init /\ [][Next]_vars

\* the public operations of src/lockers.go
SpecLockersGo == InitLockersGo /\ [][Next]_vars

\* direct calls of the internal primitives (the same in both files)
SpecPrimitives == InitPrimitives /\ [][NextPrimitives]_vars

NextLockers ==
    \/ PutCall
    \/ FetchCall
    \/ DepositPackageCall
    \/ RetrievePackageCall
    \/ RetrievePackageByIdCall
    \/ RetrievePackageByLockerIdCall

\* the scenario pools, with lockers used directly as well as through the pool
InitLockers == InitOf("part_000", UNION { [K -> {MaxCount}] : K \in ScenarioKeys })

\* Put and Fetch together with the public operations of src/unnamed/part_000
SpecLockers == InitLockers /\ [][NextLockers]_vars

\* the same for src/lockers.go
InitLockersLockersGo == InitOf("lockers.go", UNION { [K -> {MaxCount}] : K \in ScenarioKeys })

SpecLockersLockersGo == InitLockersLockersGo /\ [][NextLockers]_vars

\* NewInventory over every input map within the bounds, the map recorded as
\* the argument of the call
InitInputs ==
    /\ build = "part_000"
    /\ \E m \in InputMaps : \E order \in Perms(DOMAIN m) :
         /\ inv = NewInventory(m, order)
         /\ last = [op |-> "NewInventory", arg |-> <<m>>, err |-> ErrNil, ret |-> <<>>]
    /\ StoredIn = [p \in Packages |-> <<>>]
    /\ standalone = [Id |-> <<"uuid", 0>>, SizeId |-> 0, Contents |-> <<>>]
    /\ calls = 0
    /\ pre = <<>>
    /\ callers = NoCallers

\* NewInventory(m) for every m, followed by the public operations
SpecInputs == InitInputs /\ [][Next]_vars

(***************************************************************************)
(* SizeSpec.Normalize and SizeSpec.Contains on their own                   *)
(***************************************************************************)
\* every SizeSpec there is
SizeSpecs == { SS(l, w, h) : l \in MinInt..MaxInt, w \in MinInt..MaxInt, h \in MinInt..MaxInt }

\* the SizeSpecs with dimensions 0..MaxDim
SmallSizeSpecs == { SS(l, w, h) : l \in 0..MaxDim, w \in 0..MaxDim, h \in 0..MaxDim }

\* a caller holds a SizeSpec; no pool is involved
InitSizeSpec ==
    /\ build = "part_000"
    /\ inv = NewInventory(<<>>, <<>>)
    /\ StoredIn = [p \in Packages |-> <<>>]
    /\ standalone = [Id |-> <<"uuid", 0>>, SizeId |-> 0, Contents |-> <<>>]
    /\ calls = 0
    /\ \E s \in SizeSpecs :
         last = [op |-> "SizeSpec", arg |-> <<s>>, err |-> ErrNil, ret |-> <<>>]
    /\ pre = <<>>
    /\ callers = NoCallers

\* spec.Normalize()
NormalizeCall ==
    /\ last.op = "SizeSpec"
    /\ last' = [op |-> "Normalize", arg |-> last.arg, err |-> ErrNil,
                ret |-> <<Normalize(last.arg[1])>>]
    /\ UNCHANGED <<callers, build, inv, StoredIn, standalone, calls, pre>>

\* spec.Contains(other) and other.Contains(spec)
ContainsCall ==
    /\ last.op = "SizeSpec"
    /\ last.arg[1] \in SmallSizeSpecs
    /\ \E other \in SmallSizeSpecs :
         last' = [op |-> "Contains", arg |-> <<last.arg[1], other>>, err |-> ErrNil,
                  ret |-> <<Contains(last.arg[1], other), Contains(other, last.arg[1])>>]
    /\ UNCHANGED <<callers, build, inv, StoredIn, standalone, calls, pre>>

NextSizeSpec ==
    \/ NormalizeCall
    \/ ContainsCall

SpecSizeSpec == InitSizeSpec /\ [][NextSizeSpec]_vars

(***************************************************************************)
(* DepositPackage called by several goroutines at once.  The code takes no *)
(* lock; each statement of DepositPackage is a step of its caller, and the *)
(* steps of different callers interleave.  Callers that agree to hold a    *)
(* lock of their own around every call are modelled as well.               *)
(***************************************************************************)
\* the goroutines
Threads == { 1, 2 }

\* a goroutine that is not inside DepositPackage
Idle ==
    [pc |-> "idle", pkg |-> <<>>, chosen_id |-> 0, locker_index |-> 0,
     err |-> ErrNil, ret |-> <<>>]

\* goroutine t has left DepositPackage with error err and locker id ret
Returned(t, err, ret) ==
    [callers EXCEPT !.of[t].pc = "done", !.of[t].err = err, !.of[t].ret = ret]

\* goroutine t has reached the statement pc
At(t, pc) == callers # NoCallers /\ callers.of[t].pc = pc

\* a caller that ignores the lock
MayBegin_NoLock(t) == TRUE

\* goroutine t may enter DepositPackage: always, or, when the callers hold a
\* lock around each call, when no other goroutine is inside a call
MayBegin(t) ==
    callers.locking => \A u \in Threads \ {t} : callers.of[u].pc \in { "idle", "done" }

\* the scenario pools, two goroutines, with and without a lock
InitConcurrent ==
    /\ build = "part_000"
    /\ \E m \in UNION { [K -> {MaxCount}] : K \in ScenarioKeys } :
         \E order \in Perms(DOMAIN m) : inv = NewInventory(m, order)
    /\ StoredIn = [p \in Packages |-> <<>>]
    /\ standalone = [Id |-> <<"uuid", 0>>, SizeId |-> 0, Contents |-> <<>>]
    /\ calls = 0
    /\ last = [op |-> "NewInventory", arg |-> <<>>, err |-> ErrNil, ret |-> <<>>]
    /\ pre = <<>>
    /\ \E b \in BOOLEAN : callers = [locking |-> b, of |-> [t \in Threads |-> Idle]]

\* goroutine t calls inv.DepositPackage(pkg)
DepositBegin(t) ==
    /\ At(t, "idle")
    /\ MayBegin(t)
    /\ \E pkg \in Packages :
         callers' = [callers EXCEPT !.of[t] = [Idle EXCEPT !.pc = "check", !.pkg = <<pkg>>]]
    /\ UNCHANGED <<build, inv, StoredIn, standalone, calls, last, pre>>

\* if _, ok := inv.LockersByPackageId[pkg.Id]; ok { return "", ... }
DepositCheck(t) ==
    /\ At(t, "check")
    /\ callers' = IF callers.of[t].pkg[1].Id \in DOMAIN inv.LockersByPackageId
                    THEN Returned(t, ErrDuplicate, <<>>)
                    ELSE [callers EXCEPT !.of[t].pc = "select"]
    /\ UNCHANGED <<build, inv, StoredIn, standalone, calls, last, pre>>

\* chosen_id, err := inv.GetMostSuitableLockerSize(pkg.Size.Normalize())
DepositSelect(t) ==
    /\ At(t, "select")
    /\ \E r \in { GetMostSuitableLockerSize(inv, Normalize(callers.of[t].pkg[1].Size), o) :
                    o \in SizeOrders } :
         callers' = IF r.err # ErrNil
                      THEN Returned(t, r.err, <<>>)
                      ELSE [callers EXCEPT !.of[t].pc = "read", !.of[t].chosen_id = r.id]
    /\ UNCHANGED <<build, inv, StoredIn, standalone, calls, last, pre>>

\* ctrl := inv.Control[chosen_id]; locker_index := ctrl.Lockers[len(ctrl.Lockers) - 1]
DepositRead(t) ==
    /\ At(t, "read")
    /\ callers' = IF Len(inv.Control[callers.of[t].chosen_id].Lockers) = 0
                    THEN Returned(t, Panic, <<>>)
                    ELSE [callers EXCEPT
                            !.of[t].pc = "put",
                            !.of[t].locker_index =
                               inv.Control[callers.of[t].chosen_id].Lockers[
                                  Len(inv.Control[callers.of[t].chosen_id].Lockers)]]
    /\ UNCHANGED <<build, inv, StoredIn, standalone, calls, last, pre>>

\* err = inv.Lockers[locker_index].Put(pkg); if err != nil { return "", err }
DepositPut(t) ==
    /\ At(t, "put")
    /\ \E r \in { Put(inv.Lockers[callers.of[t].locker_index],
                      InvRef(callers.of[t].locker_index), callers.of[t].pkg[1], StoredIn) } :
         /\ inv' = [inv EXCEPT !.Lockers[callers.of[t].locker_index] = r.l]
         /\ StoredIn' = r.StoredIn
         /\ callers' = IF r.err # ErrNil
                         THEN Returned(t, r.err, <<>>)
                         ELSE [callers EXCEPT !.of[t].pc = "allocate"]
    /\ UNCHANGED <<build, standalone, calls, last, pre>>

\* inv.AllocateLocker(chosen_id)
DepositAllocate(t) ==
    /\ At(t, "allocate")
    /\ IF AllocateLockerPanics(inv, callers.of[t].chosen_id)
         THEN /\ inv' = inv
              /\ callers' = Returned(t, Panic, <<>>)
         ELSE /\ inv' = AllocateLocker(inv, callers.of[t].chosen_id).inv
              /\ callers' = [callers EXCEPT !.of[t].pc = "record"]
    /\ UNCHANGED <<build, StoredIn, standalone, calls, last, pre>>

\* inv.LockersByPackageId[pkg.Id] = locker_index; return inv.Lockers[locker_index].Id, nil
DepositRecord(t) ==
    /\ At(t, "record")
    /\ inv' = [inv EXCEPT !.LockersByPackageId =
                 (callers.of[t].pkg[1].Id :> callers.of[t].locker_index)
                   @@ MapDelete(@, callers.of[t].pkg[1].Id)]
    /\ callers' = Returned(t, ErrNil, <<inv.Lockers[callers.of[t].locker_index].Id>>)
    /\ UNCHANGED <<build, StoredIn, standalone, calls, last, pre>>

\* the goroutines have returned and their results have been looked at
DepositsOver ==
    /\ \A t \in Threads : At(t, "done")
    /\ callers' = [callers EXCEPT !.of = [t \in Threads |-> Idle]]
    /\ UNCHANGED <<build, inv, StoredIn, standalone, calls, last, pre>>

\* inv.RetrievePackageById(id) while no goroutine is inside DepositPackage
RetrieveBetweenDeposits ==
    /\ \A t \in Threads : At(t, "idle")
    /\ \E id \in PackageIds :
         /\ inv' = RetrievePackageById(build, inv, StoredIn, id).inv
         /\ StoredIn' = RetrievePackageById(build, inv, StoredIn, id).StoredIn
    /\ UNCHANGED <<build, standalone, calls, last, pre, callers>>

NextConcurrent ==
    \/ \E t \in Threads : DepositBegin(t)
    \/ \E t \in Threads : DepositCheck(t)
    \/ \E t \in Threads : DepositSelect(t)
    \/ \E t \in Threads : DepositRead(t)
    \/ \E t \in Threads : DepositPut(t)
    \/ \E t \in Threads : DepositAllocate(t)
    \/ \E t \in Threads : DepositRecord(t)
    \/ DepositsOver
    \/ RetrieveBetweenDeposits

\* two goroutines in DepositPackage of src/unnamed/part_000
SpecConcurrent == InitConcurrent /\ [][NextConcurrent]_vars

(***************************************************************************)
(* A caller that goes on retrieving what the pool holds                    *)
(***************************************************************************)
\* a retrieval that returns a package
RetrieveStored ==
    /\ \/ RetrievePackageCall
       \/ RetrievePackageByIdCall
       \/ RetrievePackageByLockerIdCall
    /\ last'.err = ErrNil

\* the public operations of src/unnamed/part_000 on the scenario pools, with
\* a caller that does not leave a stored package in the pool for ever
SpecDrain == InitLockers /\ [][Next]_vars /\ WF_vars(RetrieveStored)

\* the same for src/lockers.go
SpecDrainLockersGo == InitLockersLockersGo /\ [][Next]_vars /\ WF_vars(RetrieveStored)

(***************************************************************************)
(* Vocabulary of the properties                                            *)
(***************************************************************************)
\* the classes whose size strictly contains the size of class x
Larger(i, x) ==
    { y \in DOMAIN i.Control : y # x /\ Contains(i.Control[y].Size, i.Control[x].Size) }

\* the classes whose size is strictly contained in the size of class x
Smaller(i, x) ==
    { y \in DOMAIN i.Control : y # x /\ Contains(i.Control[x].Size, i.Control[y].Size) }

RECURSIVE FreeOf(_, _)
\* the number of free lockers of the classes in S
FreeOf(i, S) ==
    IF S = {} THEN 0
    ELSE Len(i.Control[CHOOSE c \in S : TRUE].Lockers)
           + FreeOf(i, S \ { CHOOSE c \in S : TRUE })

\* the elements of a sequence
Range(q) == { q[k] : k \in 1..Len(q) }

\* the virtual capacity of class c
VC(i, c) == i.Control[c].VirtualCapacity

\* some locker of the pool holds a package
SomeLockerOccupied == \E k \in 1..Len(inv.Lockers) : inv.Lockers[k].Contents # <<>>

(***************************************************************************)
(* C1: in every state reachable from NewInventory by DepositPackage and    *)
(* RetrievePackage* calls, the VirtualCapacity of every class X is the     *)
(* number of free lockers of X plus the free lockers of every class whose  *)
(* size strictly contains X's size.                                        *)
(***************************************************************************)
C1_VirtualCapacityCountsEqualOrLarger ==
    \A x \in DOMAIN inv.Control :
        VC(inv, x) = FreeOf(inv, {x} \cup Larger(inv, x))

\* after a successful retrieval, with a package still stored, a class whose
\* virtual capacity includes free lockers of a larger class
C1_Witness ==
    /\ last.op = "RetrievePackageByLockerId"
    /\ last.err = ErrNil
    /\ SomeLockerOccupied
    /\ \E x \in DOMAIN inv.Control :
         /\ FreeOf(inv, Larger(inv, x)) > 0
         /\ VC(inv, x) > Len(inv.Control[x].Lockers)

(***************************************************************************)
(* C2, as stated: right after NewInventory the VirtualCapacity of every    *)
(* class X is |free(X)| plus |free(Y)| of every class Y strictly smaller   *)
(* than X.                                                                 *)
(***************************************************************************)
C2_SeedCountsEqualOrSmaller ==
    last.op = "NewInventory" =>
        \A x \in DOMAIN inv.Control :
            VC(inv, x) = FreeOf(inv, {x} \cup Smaller(inv, x))

(***************************************************************************)
(* C2, amended: right after NewInventory the VirtualCapacity of every      *)
(* class X is |free(X)| plus |free(Y)| of every class Y strictly larger    *)
(* than X.                                                                 *)
(***************************************************************************)
C2_SeedCountsEqualOrLarger ==
    last.op = "NewInventory" =>
        \A x \in DOMAIN inv.Control :
            /\ VC(inv, x) = Len(inv.Control[x].Lockers) + FreeOf(inv, Larger(inv, x))
            /\ Range(inv.Control[x].SmallerThan) = Larger(inv, x)

\* a fresh pool in which the two readings differ for some class
C2_Witness ==
    /\ last.op = "NewInventory"
    /\ \E x \in DOMAIN inv.Control :
         FreeOf(inv, Larger(inv, x)) # FreeOf(inv, Smaller(inv, x))

(***************************************************************************)
(* C3 and C4 are about the transition a direct call of a primitive makes.  *)
(***************************************************************************)
\* the step is a completed call of AllocateLocker or DeallocateLocker
AllocOrDeallocStep ==
    /\ last'.op \in { "AllocateLocker", "DeallocateLocker" }
    /\ last'.err = ErrNil

\* the class whose locker that call took or gave back
StepClass ==
    IF last'.op = "AllocateLocker" THEN last'.arg[1]
    ELSE inv.Lockers[last'.arg[1]].SizeId

\* the delta of that call
StepDelta == IF last'.op = "AllocateLocker" THEN -1 ELSE 1

\* the virtual capacities change by d in the classes of S and nowhere else
OnlyAdjusted(S, d) ==
    \A t \in DOMAIN inv.Control :
        VC(inv', t) = VC(inv, t) + (IF t \in S THEN d ELSE 0)

Candidates(i, req) ==
    { c \in DOMAIN i.Control : Contains(i.Control[c].Size, req) /\ ~Full(i.Control[c]) }

\* no candidate d for req comes before class c
MinimalUnderBefore(i, req, c) ==
    \A d \in Candidates(i, req) :
        /\ ~(VC(i, d) > VC(i, c))
        /\ ~(VC(i, d) = VC(i, c) /\ Volume(i.Control[d].Size) < Volume(i.Control[c].Size))

\* the step leaves the pool and the packages as they were
PoolUnchanged == inv' = inv /\ StoredIn' = StoredIn

(***************************************************************************)
(* C5: when at least one candidate exists, GetMostSuitableLockerSize       *)
(* returns a class that is itself a candidate and is minimal under Before: *)
(* no other candidate has a greater VirtualCapacity, nor an equal          *)
(* VirtualCapacity with a smaller Volume.  The call does not modify the    *)
(* pool.                                                                   *)
(***************************************************************************)
C5_ChosenIsMinimalCandidate ==
    [][(last'.op = "GetMostSuitableLockerSize" /\ Candidates(inv, last'.arg[1]) # {}) =>
         /\ last'.err = ErrNil
         /\ last'.ret[1] \in Candidates(inv, last'.arg[1])
         /\ MinimalUnderBefore(inv, last'.arg[1], last'.ret[1])
         /\ PoolUnchanged]_vars

\* a call that chose among candidates of different virtual capacities
C5_Witness ==
    /\ last.op = "GetMostSuitableLockerSize"
    /\ last.err = ErrNil
    /\ \E d \in Candidates(inv, last.arg[1]) : VC(inv, d) < VC(inv, last.ret[1])
    /\ SomeLockerOccupied

(***************************************************************************)
(* C6: GetMostSuitableLockerSize returns the 'no available lockers' error  *)
(* if and only if no class both has a size that Contains the request and   *)
(* is not Full.  On error the returned class id is 0 and the pool is       *)
(* unchanged.                                                              *)
(***************************************************************************)
C6_ErrorIffNoCandidate ==
    [][last'.op = "GetMostSuitableLockerSize" =>
         /\ (last'.err = ErrNoLockers) <=> (Candidates(inv, last'.arg[1]) = {})
         /\ last'.err \in { ErrNil, ErrNoLockers }
         /\ last'.err # ErrNil => (last'.ret = <<0>> /\ PoolUnchanged)]_vars

\* the error was returned although some class contains the request: every
\* such class has an empty free list
C6_Witness ==
    /\ last.op = "GetMostSuitableLockerSize"
    /\ last.err = ErrNoLockers
    /\ \E c \in DOMAIN inv.Control : Contains(inv.Control[c].Size, last.arg[1])

(***************************************************************************)
(* C7, C8: a successful DepositPackage(p) followed at once by a retrieval. *)
(* pre[1] holds the pool before that deposit, p and the locker id it       *)
(* returned.                                                               *)
(***************************************************************************)
\* the retrieval succeeded, returned p and restored the pool
RoundTripRestored ==
    /\ last.err = ErrNil
    /\ last.ret = << pre[1].pkg >>
    /\ inv.Lockers[inv.LockersById[pre[1].id]].Contents = <<>>
    /\ StoredIn[pre[1].pkg] = <<>>
    /\ \A c \in DOMAIN inv.Control :
         /\ VC(inv, c) = VC(pre[1].inv, c)
         /\ Range(inv.Control[c].Lockers) = Range(pre[1].inv.Control[c].Lockers)

(***************************************************************************)
(* C7: if DepositPackage(p) succeeds and returns locker id L, then an      *)
(* immediately following RetrievePackageByLockerId(L) succeeds and returns *)
(* p; afterwards the locker is Empty, p.StoredIn is unset, and every       *)
(* class's VirtualCapacity and set of free locker indices equal their      *)
(* values before the deposit.                                              *)
(***************************************************************************)
C7_RoundTripByLockerId ==
    (/\ last.op = "RetrievePackageByLockerId"
     /\ pre # <<>>
     /\ last.arg[1] = pre[1].id) => RoundTripRestored

(***************************************************************************)
(* C8: if DepositPackage(p) succeeds, then an immediately following        *)
(* RetrievePackageById(p.Id), or RetrievePackage(p), succeeds and returns  *)
(* p; afterwards the locker that held it is Empty, p.StoredIn is unset,    *)
(* and every class's VirtualCapacity and set of free locker indices equal  *)
(* their values before the deposit.                                        *)
(***************************************************************************)
C8_RoundTripByPackageId ==
    (/\ pre # <<>>
     /\ \/ last.op = "RetrievePackageById" /\ last.arg[1] = pre[1].pkg.Id
        \/ last.op = "RetrievePackage" /\ last.arg[1] = pre[1].pkg) => RoundTripRestored

(***************************************************************************)
(* C9 and C10 are about a call of DepositPackage.                          *)
(***************************************************************************)
\* the step is a DepositPackage(p) where every class containing
\* Normalize(p.Size) is Full
DepositIntoExhausted ==
    /\ last'.op = "DepositPackage"
    /\ Candidates(inv, Normalize(last'.arg[1].Size)) = {}

\* some locker of the pool holds a package with identifier x
Stored(x) ==
    \E k \in 1..Len(inv.Lockers) :
        inv.Lockers[k].Contents # <<>> /\ inv.Lockers[k].Contents[1].Id = x

(***************************************************************************)
(* C9, as stated: DepositPackage(p) in a state where every class whose     *)
(* size contains Normalize(p.Size) is Full returns the 'no available       *)
(* locker' error and mutates nothing.                                      *)
(***************************************************************************)
C9_ExhaustedDepositFails ==
    [][DepositIntoExhausted => (last'.err = ErrNoLockers /\ PoolUnchanged)]_vars

(***************************************************************************)
(* C9, amended: DepositPackage(p) of a package whose identifier has no     *)
(* recorded locker, in a state where every class whose size contains       *)
(* Normalize(p.Size) is Full, returns the 'no available locker' error and  *)
(* mutates nothing; with a recorded identifier the call returns the        *)
(* duplicate-identifier error and mutates nothing either.                  *)
(***************************************************************************)
C9_ExhaustedDepositFailsUnlessDuplicate ==
    [][DepositIntoExhausted =>
         /\ PoolUnchanged
         /\ last'.ret = <<>>
         /\ last'.err = IF last'.arg[1].Id \in DOMAIN inv.LockersByPackageId
                          THEN ErrDuplicate ELSE ErrNoLockers]_vars

\* a deposit was refused for want of a locker while a fitting class exists
\* and a package is stored
C9_Witness ==
    /\ last.op = "DepositPackage"
    /\ last.err = ErrNoLockers
    /\ SomeLockerOccupied
    /\ \E c \in DOMAIN inv.Control :
         Contains(inv.Control[c].Size, Normalize(last.arg[1].Size))

(***************************************************************************)
(* C10: while a package with identifier X is stored in the pool, a         *)
(* DepositPackage of any package with identifier X fails with the          *)
(* duplicate-identifier error and leaves every free list, every            *)
(* VirtualCapacity, every locker and both identifier maps unchanged.       *)
(***************************************************************************)
C10_DuplicateDepositFails ==
    [][(last'.op = "DepositPackage" /\ Stored(last'.arg[1].Id)) =>
         (last'.err = ErrDuplicate /\ PoolUnchanged)]_vars

(***************************************************************************)
(* C11: RetrievePackageById with an item identifier that is not currently  *)
(* registered, and RetrievePackageByLockerId with an identifier that is no *)
(* locker's id, return the 'not known' error with a nil package and leave  *)
(* the whole pool state unchanged.                                         *)
(***************************************************************************)
C11_UnknownIdNotKnown ==
    [][(\/ /\ last'.op = "RetrievePackageById"
           /\ last'.arg[1] \notin DOMAIN inv.LockersByPackageId
        \/ /\ last'.op = "RetrievePackageByLockerId"
           /\ \A k \in 1..Len(inv.Lockers) : inv.Lockers[k].Id # last'.arg[1]) =>
         /\ last'.err = ErrNotKnown
         /\ last'.ret = <<>>
         /\ PoolUnchanged]_vars

\* an unknown locker id was presented while a package was stored
C11_Witness ==
    /\ last.op = "RetrievePackageByLockerId"
    /\ last.err = ErrNotKnown
    /\ last.arg[1] \notin DOMAIN inv.LockersById
    /\ SomeLockerOccupied

(***************************************************************************)
(* C12: after every Put, Fetch, DepositPackage and RetrievePackage*        *)
(* operation (successful or failing), a locker's Contents is package P if  *)
(* and only if P.StoredIn is that locker, so no locker holds two packages, *)
(* no package is in two lockers, and no one-sided reference exists.        *)
(***************************************************************************)
C12_MutualReference ==
    \A ref \in LockerRefs : \A p \in Packages :
        (LockerAt(ref).Contents = <<p>>) <=> (StoredIn[p] = <<ref>>)

\* a package was fetched from the caller's locker while a deposited package
\* is held by a locker of the pool
C12_Witness ==
    /\ last.op = "Fetch"
    /\ last.err = ErrNil
    /\ SomeLockerOccupied
    /\ inv.LockersByPackageId # <<>>

(***************************************************************************)
(* C13: after any sequence of DepositPackage and RetrievePackage*          *)
(* operations, LockersByPackageId contains an entry id -> i exactly when   *)
(* locker i currently holds a package whose identifier is id.              *)
(***************************************************************************)
C13_RegistryMatchesContents ==
    \A id \in PackageIds : \A k \in 1..Len(inv.Lockers) :
        (id \in DOMAIN inv.LockersByPackageId /\ inv.LockersByPackageId[id] = k)
          <=> (inv.Lockers[k].Contents # <<>> /\ inv.Lockers[k].Contents[1].Id = id)

\* the free lists that hold locker index k, as pairs of class and position
FreeListPlaces(k) ==
    { <<c, n>> \in (DOMAIN inv.Control) \X (1..Len(inv.Lockers)) :
        n <= Len(inv.Control[c].Lockers) /\ inv.Control[c].Lockers[n] = k }

\* the number of lockers of the pool that hold a package
Occupied == Cardinality({ k \in 1..Len(inv.Lockers) : inv.Lockers[k].Contents # <<>> })

(***************************************************************************)
(* C14: after any sequence of DepositPackage and RetrievePackage*          *)
(* operations, every locker index appears at most once across all free     *)
(* lists, and a locker index is in a free list exactly when that locker is *)
(* Empty; so the sum of the free-list lengths equals the total locker      *)
(* count minus the number of occupied lockers.                             *)
(***************************************************************************)
C14_FreeListsHoldTheEmptyLockers ==
    /\ \A k \in 1..Len(inv.Lockers) :
         /\ Cardinality(FreeListPlaces(k)) <= 1
         /\ (FreeListPlaces(k) # {}) <=> (inv.Lockers[k].Contents = <<>>)
    /\ FreeOf(inv, DOMAIN inv.Control) = Len(inv.Lockers) - Occupied

(***************************************************************************)
(* C15, C16, C17: the pool of exactly three classes A = (1,1,1),           *)
(* B = (5,1,1), C = (5,5,5)                                                *)
(***************************************************************************)
SizeA == SS(1, 1, 1)
SizeB == SS(5, 1, 1)
SizeC == SS(5, 5, 5)

\* the pool was built from exactly the three classes
PoolABC == DOMAIN inv.Sizes = { SizeA, SizeB, SizeC }

\* the control record of the class of a size
ClassOf(size) == inv.Control[inv.Sizes[size]]

\* the step is a call GetMostSuitableLockerSize(req) on the pool A, B, C
SelectsInABC(req) ==
    /\ PoolABC
    /\ last'.op = "GetMostSuitableLockerSize"
    /\ last'.arg = <<req>>

\* the call returned the class of a size, without error
Selected(size) == last'.err = ErrNil /\ last'.ret = << inv.Sizes[size] >>

(***************************************************************************)
(* C15, as stated: in every reachable state of the pool A, B, C in which   *)
(* class A has no free locker, GetMostSuitableLockerSize for a request of  *)
(* size (2,1,1) selects class B.                                           *)
(***************************************************************************)
C15_SelectsBWhenADepleted ==
    [][(SelectsInABC(SS(2, 1, 1)) /\ Full(ClassOf(SizeA))) => Selected(SizeB)]_vars

(***************************************************************************)
(* C15, amended: in every reachable state of the pool A, B, C in which     *)
(* class B has a free locker, GetMostSuitableLockerSize for a request of   *)
(* size (2,1,1) selects class B, whether or not A has a free locker; when  *)
(* B is Full it selects C if C has a free locker, and fails with the 'no   *)
(* available lockers' error otherwise.                                     *)
(***************************************************************************)
C15_SelectsBWhenBHasFreeLocker ==
    [][SelectsInABC(SS(2, 1, 1)) =>
         IF ~Full(ClassOf(SizeB)) THEN Selected(SizeB)
         ELSE IF ~Full(ClassOf(SizeC)) THEN Selected(SizeC)
         ELSE last'.err = ErrNoLockers]_vars

\* B was selected for (2,1,1) while A had no free locker
C15_Witness ==
    /\ PoolABC
    /\ last.op = "GetMostSuitableLockerSize"
    /\ last.arg = << SS(2, 1, 1) >>
    /\ last.err = ErrNil
    /\ last.ret = << inv.Sizes[SizeB] >>
    /\ Full(ClassOf(SizeA))

\* no class of S comes before class c: none has a greater VirtualCapacity,
\* nor an equal one with a smaller volume
FirstAmong(S, c) ==
    \A d \in S :
        /\ ~(VC(inv, d) > VC(inv, c))
        /\ ~(VC(inv, d) = VC(inv, c) /\ Volume(inv.Control[d].Size) < Volume(inv.Control[c].Size))

(***************************************************************************)
(* C16, as stated: in every reachable state of the pool A, B, C,           *)
(* GetMostSuitableLockerSize for a request of size (1,1,1) selects         *)
(* whichever of A, B, C has the largest VirtualCapacity, and among classes *)
(* with equal VirtualCapacity the one with the smallest volume.            *)
(***************************************************************************)
C16_SelectsLargestCapacityOfAll ==
    [][SelectsInABC(SS(1, 1, 1)) =>
         /\ last'.err = ErrNil
         /\ last'.ret[1] \in DOMAIN inv.Control
         /\ FirstAmong(DOMAIN inv.Control, last'.ret[1])]_vars

(***************************************************************************)
(* C16, amended: in every reachable state of the pool A, B, C,             *)
(* GetMostSuitableLockerSize for a request of size (1,1,1) selects, among  *)
(* the classes of A, B, C that are not Full, the one with the largest      *)
(* VirtualCapacity (among equals the one with the smallest volume), which  *)
(* is the smallest class with a free locker; when every class is Full it   *)
(* fails with the 'no available lockers' error.                            *)
(***************************************************************************)
C16_SelectsLargestCapacityOfNotFull ==
    [][SelectsInABC(SS(1, 1, 1)) =>
         /\ IF ~Full(ClassOf(SizeA)) THEN Selected(SizeA)
            ELSE IF ~Full(ClassOf(SizeB)) THEN Selected(SizeB)
            ELSE IF ~Full(ClassOf(SizeC)) THEN Selected(SizeC)
            ELSE last'.err = ErrNoLockers
         /\ last'.err = ErrNil =>
              /\ ~Full(inv.Control[last'.ret[1]])
              /\ FirstAmong({ c \in DOMAIN inv.Control : ~Full(inv.Control[c]) },
                            last'.ret[1])]_vars

\* B was selected for (1,1,1): A is Full and has B's VirtualCapacity
C16_Witness ==
    /\ PoolABC
    /\ last.op = "GetMostSuitableLockerSize"
    /\ last.arg = << SS(1, 1, 1) >>
    /\ last.err = ErrNil
    /\ last.ret = << inv.Sizes[SizeB] >>
    /\ ClassOf(SizeA).VirtualCapacity = ClassOf(SizeB).VirtualCapacity

\* class x is in neither relation list of class y
Unrelated(x, y) ==
    /\ x.SizeId \notin Range(y.BiggerThan)
    /\ x.SizeId \notin Range(y.SmallerThan)

(***************************************************************************)
(* C17, as stated: in the pool NewInventory builds from A, B, C, the       *)
(* containment relation has A strictly inside C and B strictly inside C,   *)
(* and A and B are mutually incomparable: neither appears in the other's   *)
(* BiggerThan or SmallerThan list.                                         *)
(***************************************************************************)
C17_ABIncomparable ==
    PoolABC =>
        /\ ClassOf(SizeA).SizeId \in Range(ClassOf(SizeC).BiggerThan)
        /\ ClassOf(SizeB).SizeId \in Range(ClassOf(SizeC).BiggerThan)
        /\ Unrelated(ClassOf(SizeA), ClassOf(SizeB))
        /\ Unrelated(ClassOf(SizeB), ClassOf(SizeA))

(***************************************************************************)
(* C17, amended: in the pool NewInventory builds from A, B, C, the         *)
(* containment relation is a chain: A is strictly inside B and C, and B is *)
(* strictly inside C.  BiggerThan is empty for A, {A} for B and {A, B} for *)
(* C; SmallerThan is {B, C} for A, {C} for B and empty for C; no list      *)
(* names a class twice.                                                    *)
(***************************************************************************)
C17_ABCChain ==
    PoolABC =>
        /\ Range(ClassOf(SizeA).BiggerThan) = {}
        /\ Range(ClassOf(SizeB).BiggerThan) = { inv.Sizes[SizeA] }
        /\ Range(ClassOf(SizeC).BiggerThan) = { inv.Sizes[SizeA], inv.Sizes[SizeB] }
        /\ Range(ClassOf(SizeA).SmallerThan) = { inv.Sizes[SizeB], inv.Sizes[SizeC] }
        /\ Range(ClassOf(SizeB).SmallerThan) = { inv.Sizes[SizeC] }
        /\ Range(ClassOf(SizeC).SmallerThan) = {}
        /\ Len(ClassOf(SizeC).BiggerThan) = 2
        /\ Len(ClassOf(SizeA).SmallerThan) = 2
        /\ Len(ClassOf(SizeB).BiggerThan) = 1
        /\ Len(ClassOf(SizeB).SmallerThan) = 1

\* the pool A, B, C as NewInventory returned it
C17_Witness ==
    /\ PoolABC
    /\ last.op = "NewInventory"
    /\ inv.Sizes[SizeB] \in Range(ClassOf(SizeA).SmallerThan)

(***************************************************************************)
(* C18, C19, C20: direct calls of AllocateLocker and DeallocateLocker      *)
(***************************************************************************)
\* the step is a completed AllocateLocker(c)
AllocateStep == last'.op = "AllocateLocker" /\ last'.err = ErrNil

\* the free list of class c before and after the step
FreeBefore(c) == inv.Control[c].Lockers
FreeAfter(c) == inv'.Control[c].Lockers

\* a sequence that names nothing twice
NoRepeats(q) == Cardinality(Range(q)) = Len(q)

\* the step leaves the free list of every class other than c as it was
OtherFreeListsKept(c) ==
    \A t \in DOMAIN inv.Control \ {c} : FreeAfter(t) = FreeBefore(t)

DeallocateStep == last'.op = "DeallocateLocker" /\ last'.err = ErrNil

\* the step gives back the index the AllocateLocker just before it returned
GivesBackAllocated ==
    /\ last.op = "AllocateLocker"
    /\ last.err = ErrNil
    /\ pre # <<>>
    /\ last'.arg[1] = pre[1].id

C20_FaultsWithoutModification ==
    [][/\ last'.op = "AllocateLocker" =>
            /\ (last'.err = Panic) <=>
                 (\/ last'.arg[1] \notin DOMAIN inv.Control
                  \/ Len(inv.Control[last'.arg[1]].Lockers) = 0)
            /\ last'.err = Panic => (last'.ret = <<>> /\ inv' = inv)
       /\ last'.op = "AdjustVirtualCapacity" =>
            /\ (last'.err = Panic) <=> (last'.arg[1] \notin DOMAIN inv.Control)
            /\ last'.err = Panic => (last'.ret = <<>> /\ inv' = inv)]_vars

\* AllocateLocker faulted on a known class whose free list had been emptied
C20_Witness ==
    /\ last.op = "AllocateLocker"
    /\ last.err = Panic
    /\ last.arg[1] \in DOMAIN inv.Control
    /\ calls >= 2

\* the locker a pointer refers to once the step is over
LockerAfter(ref) == IF ref = StandaloneRef THEN standalone' ELSE inv'.Lockers[ref[2]]

\* a step that is a direct call of Put, of Fetch
PutStep == last'.op = "Put"
FetchStep == last'.op = "Fetch"

(***************************************************************************)
(* C21: Put on a locker that has Contents fails with 'Locker is not empty', *)
(* whatever the package's StoredIn is; on an empty locker with a package   *)
(* whose StoredIn is set, to this or to any other locker, it fails with    *)
(* 'Package already in locker'; a failed Put changes neither the locker    *)
(* nor any package.  Otherwise Put returns no error, the locker's Contents *)
(* is the package and the package's StoredIn is the locker, and no other   *)
(* package changes.                                                        *)
(***************************************************************************)
C21_PutChecksLockerThenPackage ==
    [][PutStep =>
         LET ref == last'.arg[1]
             pkg == last'.arg[2]
         IN  /\ LockerAt(ref).Contents # <<>> =>
                  /\ last'.err = ErrLockerNotEmpty
                  /\ LockerAfter(ref) = LockerAt(ref)
                  /\ StoredIn' = StoredIn
             /\ (LockerAt(ref).Contents = <<>> /\ StoredIn[pkg] # <<>>) =>
                  /\ last'.err = ErrAlreadyInLocker
                  /\ LockerAfter(ref) = LockerAt(ref)
                  /\ StoredIn' = StoredIn
             /\ (LockerAt(ref).Contents = <<>> /\ StoredIn[pkg] = <<>>) =>
                  /\ last'.err = ErrNil
                  /\ LockerAfter(ref) = [LockerAt(ref) EXCEPT !.Contents = <<pkg>>]
                  /\ StoredIn' = [StoredIn EXCEPT ![pkg] = <<ref>>]
             /\ inv' = inv]_vars

\* Put into the caller's empty locker was refused because the package lies
\* in a locker of the pool
C21_Witness ==
    /\ last.op = "Put"
    /\ last.err = ErrAlreadyInLocker
    /\ standalone.Contents = <<>>
    /\ StoredIn[last.arg[2]] # <<>>
    /\ StoredIn[last.arg[2]][1] # last.arg[1]

(***************************************************************************)
(* C22: Fetch on an empty locker returns no package and 'Tried to fetch    *)
(* from empty locker' and changes nothing; on an occupied locker it        *)
(* returns the locker's Contents with no error, empties the locker and     *)
(* clears that package's StoredIn, leaving every other package alone.  A   *)
(* Fetch that directly follows a successful Put on the same locker returns *)
(* the package that was put and leaves the locker empty and the package    *)
(* without StoredIn, as they were before the Put.                          *)
(***************************************************************************)
C22_FetchReturnsAndClears ==
    [][FetchStep =>
         LET ref == last'.arg[1]
             l == LockerAt(ref)
         IN  /\ l.Contents = <<>> =>
                  /\ last'.ret = <<>>
                  /\ last'.err = ErrFetchEmpty
                  /\ LockerAfter(ref) = l
                  /\ StoredIn' = StoredIn
             /\ l.Contents # <<>> =>
                  /\ last'.ret = l.Contents
                  /\ last'.err = ErrNil
                  /\ LockerAfter(ref) = [l EXCEPT !.Contents = <<>>]
                  /\ StoredIn' = [StoredIn EXCEPT ![l.Contents[1]] = <<>>]
             /\ (last.op = "Put" /\ last.err = ErrNil /\ last.arg[1] = ref) =>
                  /\ last'.ret = <<last.arg[2]>>
                  /\ last'.err = ErrNil
                  /\ LockerAfter(ref).Contents = <<>>
                  /\ StoredIn'[last.arg[2]] = <<>>
             /\ inv' = inv]_vars

\* Fetch on the caller's locker returned the package a Put had placed there,
\* and locker and package are free again
C22_Witness ==
    /\ last.op = "Fetch"
    /\ last.err = ErrNil
    /\ last.ret # <<>>
    /\ standalone.Contents = <<>>
    /\ StoredIn[last.ret[1]] = <<>>

\* the call that produced the state was a public operation that succeeded
PublicCallDone ==
    /\ last.op \in { "DepositPackage", "RetrievePackage", "RetrievePackageById",
                     "RetrievePackageByLockerId" }
    /\ last.err = ErrNil

(***************************************************************************)
(* C23: after NewInventory and after every public operation, Sizes and     *)
(* Control have the same number of entries, and every class id c of        *)
(* Control has Control[c].SizeId = c and Sizes[Control[c].Size] = c.       *)
(***************************************************************************)
C23_SizesMatchControl ==
    /\ Cardinality(DOMAIN inv.Sizes) = Cardinality(DOMAIN inv.Control)
    /\ \A c \in DOMAIN inv.Control :
         /\ inv.Control[c].SizeId = c
         /\ inv.Control[c].Size \in DOMAIN inv.Sizes
         /\ inv.Sizes[inv.Control[c].Size] = c

\* a pool of two classes or more after a public operation that succeeded
C23_Witness ==
    /\ PublicCallDone
    /\ Cardinality(DOMAIN inv.Control) >= 2

(***************************************************************************)
(* C24: after NewInventory and after every DepositPackage and              *)
(* RetrievePackage*, every index in the free list of a class is a position *)
(* of Lockers, and the locker at that position has the SizeId of that      *)
(* class.                                                                  *)
(***************************************************************************)
C24_FreeListsPointIntoOwnClass ==
    \A c \in DOMAIN inv.Control :
      \A n \in 1..Len(inv.Control[c].Lockers) :
        /\ inv.Control[c].Lockers[n] \in 1..Len(inv.Lockers)
        /\ inv.Lockers[inv.Control[c].Lockers[n]].SizeId = c

\* a retrieval has given a locker back to the free list of a class other
\* than the first
C24_Witness ==
    /\ last.op \in { "RetrievePackage", "RetrievePackageById", "RetrievePackageByLockerId" }
    /\ last.err = ErrNil
    /\ \E c \in DOMAIN inv.Control : c # 1 /\ Len(inv.Control[c].Lockers) >= 1

(***************************************************************************)
(* C25: every locker has exactly one entry in LockersById, and that entry  *)
(* is its own position: LockersById[Lockers[k].Id] = k, with no entry for  *)
(* any other identifier; every LockersByPackageId entry is a position of   *)
(* Lockers, and no two item identifiers map to the same position.          *)
(***************************************************************************)
C25_ReverseMapsInjective ==
    /\ DOMAIN inv.LockersById = { inv.Lockers[k].Id : k \in 1..Len(inv.Lockers) }
    /\ Cardinality(DOMAIN inv.LockersById) = Len(inv.Lockers)
    /\ \A k \in 1..Len(inv.Lockers) : inv.LockersById[inv.Lockers[k].Id] = k
    /\ \A x \in DOMAIN inv.LockersByPackageId :
         /\ inv.LockersByPackageId[x] \in 1..Len(inv.Lockers)
         /\ \A y \in DOMAIN inv.LockersByPackageId :
              x # y => inv.LockersByPackageId[x] # inv.LockersByPackageId[y]

\* two items are registered at once
C25_Witness ==
    /\ Cardinality(DOMAIN inv.LockersByPackageId) = 2
    /\ last.op = "DepositPackage"
    /\ last.err = ErrNil

\* class y is listed in BiggerThan of class x; in SmallerThan of class x
InBiggerThan(x, y) == y \in Range(inv.Control[x].BiggerThan)
InSmallerThan(x, y) == y \in Range(inv.Control[x].SmallerThan)

(***************************************************************************)
(* C26: in the pool NewInventory returns, for distinct classes X and Y:    *)
(* Y is in X.BiggerThan exactly when X's size Contains Y's size, and       *)
(* exactly when X is in Y.SmallerThan, so that incomparable classes have   *)
(* no edge.  No class is related to itself, no list names a class twice,   *)
(* BiggerThan is transitively closed and has no cycle (with transitivity:  *)
(* no two classes list each other).                                        *)
(***************************************************************************)
C26_RelationIsStrictContainment ==
    \A x \in DOMAIN inv.Control :
      /\ ~InBiggerThan(x, x)
      /\ ~InSmallerThan(x, x)
      /\ Len(inv.Control[x].BiggerThan) = Cardinality(Range(inv.Control[x].BiggerThan))
      /\ Len(inv.Control[x].SmallerThan) = Cardinality(Range(inv.Control[x].SmallerThan))
      /\ \A y \in DOMAIN inv.Control \ {x} :
           /\ InBiggerThan(x, y) <=> Contains(inv.Control[x].Size, inv.Control[y].Size)
           /\ InBiggerThan(x, y) <=> InSmallerThan(y, x)
           /\ ~(InBiggerThan(x, y) /\ InBiggerThan(y, x))
           /\ \A z \in DOMAIN inv.Control :
                (InBiggerThan(x, y) /\ InBiggerThan(y, z)) => InBiggerThan(x, z)

\* NewInventory returned three classes, two of them incomparable and both
\* inside the third
C26_Witness ==
    /\ last.op = "NewInventory"
    /\ Cardinality(DOMAIN inv.Control) = 3
    /\ \E x, y, z \in DOMAIN inv.Control :
         /\ InBiggerThan(x, y)
         /\ InBiggerThan(x, z)
         /\ y # z
         /\ ~InBiggerThan(y, z)
         /\ ~InBiggerThan(z, y)

RECURSIVE SumCounts(_, _)
\* the sum of the counts the input map m gives to the keys in K
SumCounts(m, K) ==
    IF K = {} THEN 0
    ELSE LET k == CHOOSE x \in K : TRUE
         IN  m[k] + SumCounts(m, K \ {k})

\* the keys of the input map m that normalize to size
KeysOf(m, size) == { k \in DOMAIN m : Normalize(k) = size }

\* the positions of the lockers of class c
LockersOfClass(c) == { k \in 1..Len(inv.Lockers) : inv.Lockers[k].SizeId = c }

\* the state is the one NewInventory returned
NewInventoryDone == last.op = "NewInventory"

(***************************************************************************)
(* C27: NewInventory makes one class of all the keys that normalize to the *)
(* same size: there are as many classes as distinct normalized keys, and   *)
(* the number of lockers of a class, and the length of its free list, is   *)
(* the sum of the counts of the keys that normalize to its size.           *)
(***************************************************************************)
C27_EquivalentKeysMerge ==
    NewInventoryDone =>
      /\ DOMAIN inv.Sizes = { Normalize(k) : k \in DOMAIN last.arg[1] }
      /\ Cardinality(DOMAIN inv.Control) = Cardinality(DOMAIN inv.Sizes)
      /\ \A size \in DOMAIN inv.Sizes :
           /\ Cardinality(LockersOfClass(inv.Sizes[size]))
                = SumCounts(last.arg[1], KeysOf(last.arg[1], size))
           /\ Len(inv.Control[inv.Sizes[size]].Lockers)
                = SumCounts(last.arg[1], KeysOf(last.arg[1], size))

\* NewInventory was given two keys of the same normalized size with a locker
\* each, and returned one class of two lockers
C27_Witness ==
    /\ NewInventoryDone
    /\ \E size \in DOMAIN inv.Sizes :
         /\ Cardinality(KeysOf(last.arg[1], size)) = 2
         /\ \A k \in KeysOf(last.arg[1], size) : last.arg[1][k] >= 1
         /\ Len(inv.Control[inv.Sizes[size]].Lockers) >= 2

(***************************************************************************)
(* C28: for every input map with counts >= 0 NewInventory returns a pool   *)
(* whose Lockers has exactly as many lockers as the counts add up to,      *)
(* every one of them Empty and listed in the free list of its class, and   *)
(* whose LockersByPackageId is empty; the empty map gives no lockers and   *)
(* no classes.                                                             *)
(***************************************************************************)
C28_NewInventoryBuildsEmptyPool ==
    NewInventoryDone =>
      /\ Len(inv.Lockers) = SumCounts(last.arg[1], DOMAIN last.arg[1])
      /\ \A k \in 1..Len(inv.Lockers) :
           /\ inv.Lockers[k].Contents = <<>>
           /\ inv.Lockers[k].SizeId \in DOMAIN inv.Control
           /\ k \in Range(inv.Control[inv.Lockers[k].SizeId].Lockers)
      /\ DOMAIN inv.LockersByPackageId = {}
      /\ DOMAIN last.arg[1] = {} =>
           /\ Len(inv.Lockers) = 0
           /\ DOMAIN inv.Control = {}
           /\ DOMAIN inv.Sizes = {}

\* NewInventory returned a pool with a locker from a map that also has a key
\* with count 0
C28_Witness ==
    /\ NewInventoryDone
    /\ Len(inv.Lockers) >= 1
    /\ \E k \in DOMAIN last.arg[1] : last.arg[1][k] = 0

\* the absolute value of a number
Abs(x) == IF x < 0 THEN 0 - x ELSE x

\* the greatest and the least of three numbers
Max3(a, b, c) == CHOOSE m \in { a, b, c } : \A x \in { a, b, c } : m >= x
Min3(a, b, c) == CHOOSE m \in { a, b, c } : \A x \in { a, b, c } : m <= x

\* the three absolute values of a SizeSpec in descending order
SortedAbs(s) ==
    LET a == Abs(s.Length)
        b == Abs(s.Width)
        c == Abs(s.Height)
    IN  SS(Max3(a, b, c), a + b + c - Max3(a, b, c) - Min3(a, b, c), Min3(a, b, c))

\* no dimension of s is the least int
NoMinInt(s) == s.Length # MinInt /\ s.Width # MinInt /\ s.Height # MinInt

\* the SizeSpecs that are s with its dimensions permuted and any signs changed
Variants(s) ==
    { SS(sl * p[1], sw * p[2], sh * p[3]) :
        sl \in { 1, -1 }, sw \in { 1, -1 }, sh \in { 1, -1 },
        p \in { <<s.Length, s.Width, s.Height>>, <<s.Length, s.Height, s.Width>>,
                <<s.Width, s.Length, s.Height>>, <<s.Width, s.Height, s.Length>>,
                <<s.Height, s.Length, s.Width>>, <<s.Height, s.Width, s.Length>> } }

(***************************************************************************)
(* C29: for every SizeSpec s with no dimension equal to the least int,     *)
(* Normalize(s) consists of the three absolute values of s in descending   *)
(* order: Length >= Width >= Height >= 0.  So Normalize(Normalize(s)) =    *)
(* Normalize(s), and s with its dimensions permuted or their signs changed *)
(* normalizes to the same value.                                           *)
(***************************************************************************)
C29_NormalizeSortsAbsoluteValues ==
    (last.op = "Normalize" /\ NoMinInt(last.arg[1])) =>
      /\ last.ret[1] = SortedAbs(last.arg[1])
      /\ last.ret[1].Length >= last.ret[1].Width
      /\ last.ret[1].Width >= last.ret[1].Height
      /\ last.ret[1].Height >= 0
      /\ Normalize(last.ret[1]) = last.ret[1]
      /\ \A t \in Variants(last.arg[1]) : Normalize(t) = last.ret[1]

\* Normalize has put a SizeSpec with a negative dimension and two exchanges
\* to make in order
C29_Witness ==
    /\ last.op = "Normalize"
    /\ last.arg[1] = SS(1, -5, 3)
    /\ last.ret[1] = SS(5, 3, 1)

\* the dimensions of b are those of a in some order
PermutationOf(a, b) ==
    <<b.Length, b.Width, b.Height>> \in
        { <<a.Length, a.Width, a.Height>>, <<a.Length, a.Height, a.Width>>,
          <<a.Width, a.Length, a.Height>>, <<a.Width, a.Height, a.Length>>,
          <<a.Height, a.Length, a.Width>>, <<a.Height, a.Width, a.Length>> }

(***************************************************************************)
(* C30: a.Contains(b) is true exactly when a.Length >= b.Length and        *)
(* a.Width >= b.Width and a.Height >= b.Height, the dimensions compared    *)
(* position by position as they are given.  a.Contains(a) is true.  When b *)
(* is a with its dimensions in another order, a.Contains(b) and            *)
(* b.Contains(a) are both false although a and b normalize to the same     *)
(* SizeSpec.                                                               *)
(***************************************************************************)
C30_ContainsIsComponentwise ==
    last.op = "Contains" =>
      LET a == last.arg[1]
          b == last.arg[2]
      IN  /\ last.ret[1] <=>
               (a.Length >= b.Length /\ a.Width >= b.Width /\ a.Height >= b.Height)
          /\ last.ret[2] <=>
               (b.Length >= a.Length /\ b.Width >= a.Width /\ b.Height >= a.Height)
          /\ a = b => last.ret[1]
          /\ (PermutationOf(a, b) /\ a # b) =>
               /\ ~last.ret[1]
               /\ ~last.ret[2]
               /\ Normalize(a) = Normalize(b)

\* Contains was asked about {1,2,3} and {3,2,1} and denied both directions
C30_Witness ==
    /\ last.op = "Contains"
    /\ last.arg = <<SS(1, 2, 3), SS(3, 2, 1)>>
    /\ last.ret = <<FALSE, FALSE>>

\* the volume of the size of class c
VolumeOf(c) == Volume(inv.Control[c].Size)

(***************************************************************************)
(* C31: for classes a and b of the pool, a.Before(b) is true exactly when  *)
(* the VirtualCapacity of a is greater than that of b, or the two are      *)
(* equal and the volume of a's size is smaller than that of b's; it is     *)
(* false when VirtualCapacity and volume are both equal, and a.Before(b)   *)
(* and b.Before(a) are never both true.                                    *)
(***************************************************************************)
C31_BeforeIsCapacityThenVolume ==
    \A a \in DOMAIN inv.Control : \A b \in DOMAIN inv.Control :
      /\ Before(a, b, inv) <=>
           (\/ VC(inv, a) > VC(inv, b)
            \/ (VC(inv, a) = VC(inv, b) /\ VolumeOf(a) < VolumeOf(b)))
      /\ (VC(inv, a) = VC(inv, b) /\ VolumeOf(a) = VolumeOf(b)) => ~Before(a, b, inv)
      /\ ~(Before(a, b, inv) /\ Before(b, a, inv))

\* after a deposit two different classes are equal in VirtualCapacity and in
\* volume, and neither comes before the other
C31_Witness ==
    /\ last.op = "DepositPackage"
    /\ last.err = ErrNil
    /\ \E a, b \in DOMAIN inv.Control :
         /\ a # b
         /\ VC(inv, a) = VC(inv, b)
         /\ VolumeOf(a) = VolumeOf(b)
         /\ ~Before(a, b, inv)
         /\ ~Before(b, a, inv)

\* the n distinct normalized sizes of the pool have the class ids 1..n
DenseIds ==
    /\ { inv.Sizes[s] : s \in DOMAIN inv.Sizes } = 1..Cardinality(DOMAIN inv.Sizes)
    /\ DOMAIN inv.Control = 1..Cardinality(DOMAIN inv.Sizes)
    /\ 0 \notin DOMAIN inv.Control

\* the step leaves the structure NewInventory built as it was
StaticKept ==
    /\ inv'.Sizes = inv.Sizes
    /\ DOMAIN inv'.Control = DOMAIN inv.Control
    /\ \A c \in DOMAIN inv.Control :
         /\ inv'.Control[c].SizeId = inv.Control[c].SizeId
         /\ inv'.Control[c].Size = inv.Control[c].Size
         /\ inv'.Control[c].BiggerThan = inv.Control[c].BiggerThan
         /\ inv'.Control[c].SmallerThan = inv.Control[c].SmallerThan
    /\ Len(inv'.Lockers) = Len(inv.Lockers)
    /\ \A k \in 1..Len(inv.Lockers) :
         /\ inv'.Lockers[k].Id = inv.Lockers[k].Id
         /\ inv'.Lockers[k].SizeId = inv.Lockers[k].SizeId
    /\ inv'.LockersById = inv.LockersById

(***************************************************************************)
(* C32: the n distinct normalized sizes given to NewInventory have the     *)
(* class ids 1..n, and no class has the id 0.  No DepositPackage or        *)
(* RetrievePackage* call changes Sizes, the key set of Control, the Size,  *)
(* BiggerThan or SmallerThan of a class, the Id or SizeId of a locker,     *)
(* LockersById, or the length of Lockers.                                  *)
(***************************************************************************)
C32_DenseIdsAndStaticStructure == []DenseIds /\ [][StaticKept]_vars

\* a pool of three classes after a deposit and a retrieval by item id
C32_Witness ==
    /\ last.op = "RetrievePackageById"
    /\ last.err = ErrNil
    /\ DOMAIN inv.Control = 1..3

\* the free lists and virtual capacities agree with the occupancy of the
\* lockers: a locker is in one free list, once, exactly when it is Empty,
\* and VirtualCapacity counts the free lockers of the class and of the
\* classes that contain it
BookkeepingMatches ==
    /\ \A k \in 1..Len(inv.Lockers) :
         Cardinality(FreeListPlaces(k)) = IF inv.Lockers[k].Contents = <<>> THEN 1 ELSE 0
    /\ \A x \in DOMAIN inv.Control : VC(inv, x) = FreeOf(inv, {x} \cup Larger(inv, x))

\* both goroutines have returned, and both had read the same locker index
\* from the free list
Collided ==
    /\ \A t \in Threads : At(t, "done")
    /\ \E k \in 1..Len(inv.Lockers) : \A t \in Threads : callers.of[t].locker_index = k

\* no locker is given to two packages: a goroutine that returned without
\* error finds its package in the locker it was given, two goroutines that
\* returned without error were given different lockers, and no two
\* registered items share a locker
HandedOnce ==
    /\ \A t \in Threads :
         (At(t, "done") /\ callers.of[t].err = ErrNil) =>
           /\ inv.Lockers[callers.of[t].locker_index].Contents = callers.of[t].pkg
           /\ callers.of[t].ret = <<inv.Lockers[callers.of[t].locker_index].Id>>
           /\ \A u \in Threads \ {t} :
                (At(u, "done") /\ callers.of[u].err = ErrNil) =>
                  callers.of[u].locker_index # callers.of[t].locker_index
    /\ \A x \in DOMAIN inv.LockersByPackageId : \A y \in DOMAIN inv.LockersByPackageId :
         x # y => inv.LockersByPackageId[x] # inv.LockersByPackageId[y]

(***************************************************************************)
(* C33: DepositPackage is not atomic.  Two goroutines that hold no lock    *)
(* can both finish the selection and the read of the free list before      *)
(* either changes the free list, and then hold the same locker index; when *)
(* that has happened, one of the two calls has returned an error or        *)
(* faulted, or the free lists and virtual capacities no longer agree with  *)
(* the occupancy of the lockers.  When the callers run every deposit and   *)
(* retrieval as one atomic step, by holding a lock around each call, the   *)
(* two never hold the same locker index, no locker is given to two         *)
(* packages, and the bookkeeping agrees with the occupancy between calls.  *)
(***************************************************************************)
C33_SameLockerOnlyWithoutLock ==
    /\ Collided =>
         /\ ~callers.locking
         /\ \/ \E t \in Threads : callers.of[t].err # ErrNil
            \/ ~BookkeepingMatches
    /\ callers.locking =>
         /\ HandedOnce
         /\ (\A t \in Threads : callers.of[t].pc \in { "idle", "done" }) => BookkeepingMatches

\* without a lock both goroutines read the same locker index; one has put
\* its package there, the other was refused by Put
C33_Witness ==
    /\ Collided
    /\ ~callers.locking
    /\ \E t, u \in Threads :
         /\ callers.of[t].err = ErrNil
         /\ callers.of[u].err = ErrLockerNotEmpty
         /\ callers.of[t].pkg # callers.of[u].pkg

\* the size of class x strictly contains the size of class y
StrictlyContains(x, y) == x # y /\ Contains(inv.Control[x].Size, inv.Control[y].Size)

(***************************************************************************)
(* C34: in every state reachable through NewInventory, DepositPackage and  *)
(* RetrievePackage*, if X and Y are both candidates for a request and the  *)
(* size of X strictly contains the size of Y, then Y is Before X; and the  *)
(* class GetMostSuitableLockerSize returns strictly contains no candidate. *)
(***************************************************************************)
C34_ChosenIsContainmentMinimal ==
    /\ [](\A req \in RequestSizes :
            \A x \in Candidates(inv, req) : \A y \in Candidates(inv, req) :
              StrictlyContains(x, y) => Before(y, x, inv))
    /\ [][(last'.op = "GetMostSuitableLockerSize" /\ last'.err = ErrNil) =>
            /\ last'.ret[1] \in Candidates(inv, last'.arg[1])
            /\ \A y \in Candidates(inv, last'.arg[1]) : ~StrictlyContains(last'.ret[1], y)]_vars

\* after a deposit GetMostSuitableLockerSize had a candidate that strictly
\* contains the class it returned
C34_Witness ==
    /\ last.op = "GetMostSuitableLockerSize"
    /\ last.err = ErrNil
    /\ SomeLockerOccupied
    /\ \E x \in Candidates(inv, last.arg[1]) : StrictlyContains(x, last.ret[1])

\* the step is DepositPackage(p) for a package whose identifier is not
\* registered, whose StoredIn is set, and for which a candidate class exists
DepositOfStoredPackage ==
    /\ last'.op = "DepositPackage"
    /\ last'.arg[1].Id \notin DOMAIN inv.LockersByPackageId
    /\ StoredIn[last'.arg[1]] # <<>>
    /\ Candidates(inv, Normalize(last'.arg[1].Size)) # {}

(***************************************************************************)
(* C35: DepositPackage(p) of a package whose identifier is not registered  *)
(* but whose StoredIn is already set, when a candidate class exists,       *)
(* returns an error and no locker id, and leaves the pool and the packages *)
(* unchanged: no free list and no VirtualCapacity changes.                 *)
(***************************************************************************)
C35_StoredPackageIsRefused ==
    [][DepositOfStoredPackage =>
         /\ last'.err # ErrNil
         /\ last'.ret = <<>>
         /\ PoolUnchanged]_vars

\* the step is RetrievePackageByLockerId(id) for the id of a locker of the
\* pool that is Empty
RetrieveFromEmptyLocker ==
    /\ last'.op = "RetrievePackageByLockerId"
    /\ last'.arg[1] \in DOMAIN inv.LockersById
    /\ inv.Lockers[inv.LockersById[last'.arg[1]]].Contents = <<>>

(***************************************************************************)
(* C36: RetrievePackageByLockerId on a locker that is Empty, whether it    *)
(* was never filled or has been retrieved from already, returns no package *)
(* and the 'Tried to fetch from empty locker' error, and changes no free   *)
(* list and no VirtualCapacity.  In particular a second retrieval from the *)
(* locker a retrieval has just emptied leaves the pool as it is.           *)
(***************************************************************************)
C36_NoDoubleFree ==
    [][/\ RetrieveFromEmptyLocker =>
            /\ last'.err = ErrFetchEmpty
            /\ last'.ret = <<>>
            /\ PoolUnchanged
       /\ (/\ last.op = "RetrievePackageByLockerId"
           /\ last.err = ErrNil
           /\ last'.op = "RetrievePackageByLockerId"
           /\ last'.arg = last.arg) =>
            /\ last'.err = ErrFetchEmpty
            /\ PoolUnchanged]_vars

\* a retrieval by locker id found the locker Empty while another locker of
\* the pool is occupied
C36_Witness ==
    /\ last.op = "RetrievePackageByLockerId"
    /\ last.err = ErrFetchEmpty
    /\ last.arg[1] \in DOMAIN inv.LockersById
    /\ SomeLockerOccupied

(***************************************************************************)
(* C37: after any sequence of DepositPackage and RetrievePackage* calls,   *)
(* the size of the class of every occupied locker Contains the normalized  *)
(* size of the package the locker holds, whatever order or sign the        *)
(* package's raw dimensions have.                                          *)
(***************************************************************************)
C37_OccupantFits ==
    \A k \in 1..Len(inv.Lockers) :
      inv.Lockers[k].Contents # <<>> =>
        Contains(inv.Control[inv.Lockers[k].SizeId].Size,
                 Normalize(inv.Lockers[k].Contents[1].Size))

\* a locker holds a package whose size, as it is given, the class of the
\* locker does not contain, and a second locker is occupied as well
C37_Witness ==
    /\ \E k \in 1..Len(inv.Lockers) :
         /\ inv.Lockers[k].Contents # <<>>
         /\ inv.Lockers[k].Contents[1].Size # Normalize(inv.Lockers[k].Contents[1].Size)
         /\ ~Contains(inv.Control[inv.Lockers[k].SizeId].Size, inv.Lockers[k].Contents[1].Size)
    /\ Occupied >= 2

\* the step is DepositPackage(p) for a package whose identifier is not
\* registered and whose StoredIn is not set
DepositOfFreshPackage ==
    /\ last'.op = "DepositPackage"
    /\ last'.arg[1].Id \notin DOMAIN inv.LockersByPackageId
    /\ StoredIn[last'.arg[1]] = <<>>

\* some Empty locker of the pool belongs to a class whose size contains req
EmptyLockerFits(req) ==
    \E k \in 1..Len(inv.Lockers) :
      /\ inv.Lockers[k].Contents = <<>>
      /\ Contains(inv.Control[inv.Lockers[k].SizeId].Size, req)

\* the step has placed pkg in the Empty locker at position k, of a class
\* GetMostSuitableLockerSize selects for req, and has taken one entry from
\* the free list of that class
PlacedIn(k, pkg, req) ==
    /\ inv.Lockers[k].Contents = <<>>
    /\ inv'.Lockers[k].Contents = <<pkg>>
    /\ StoredIn'[pkg] = <<InvRef(k)>>
    /\ \E o \in SizeOrders :
         GetMostSuitableLockerSize(inv, req, o) = [id |-> inv.Lockers[k].SizeId, err |-> ErrNil]
    /\ Len(inv'.Control[inv.Lockers[k].SizeId].Lockers)
         = Len(inv.Control[inv.Lockers[k].SizeId].Lockers) - 1

(***************************************************************************)
(* C38: DepositPackage(p) of a package with an unregistered identifier and *)
(* an unset StoredIn succeeds exactly when some Empty locker of the pool   *)
(* belongs to a class whose size Contains Normalize(p.Size).  On success p *)
(* lies in a locker that was Empty, of a class GetMostSuitableLockerSize   *)
(* selects for Normalize(p.Size); the free list of that class is shorter   *)
(* by one and the returned id is the id of that locker.                    *)
(***************************************************************************)
C38_DepositSucceedsIffEmptyLockerFits ==
    [][DepositOfFreshPackage =>
         /\ (last'.err = ErrNil) <=> EmptyLockerFits(Normalize(last'.arg[1].Size))
         /\ last'.err = ErrNil =>
              /\ last'.ret # <<>>
              /\ last'.ret[1] \in DOMAIN inv.LockersById
              /\ PlacedIn(inv.LockersById[last'.ret[1]], last'.arg[1],
                          Normalize(last'.arg[1].Size))]_vars

\* the VirtualCapacity NewInventory gave class x: the number of lockers of x
\* and of the classes in x.SmallerThan
AsBuiltVirtualCapacity(x) ==
    Cardinality(LockersOfClass(x))
      + Cardinality(UNION { LockersOfClass(y) : y \in Range(inv.Control[x].SmallerThan) })

\* the bookkeeping of the pool is what it was when NewInventory returned
PoolAsBuilt ==
    /\ \A k \in 1..Len(inv.Lockers) : inv.Lockers[k].Contents = <<>>
    /\ \A c \in DOMAIN inv.Control :
         /\ Range(inv.Control[c].Lockers) = LockersOfClass(c)
         /\ Len(inv.Control[c].Lockers) = Cardinality(LockersOfClass(c))
         /\ VC(inv, c) = AsBuiltVirtualCapacity(c)
    /\ DOMAIN inv.LockersByPackageId = {}

\* the step is a DepositPackage that returns a locker id
DepositDone == last'.op = "DepositPackage" /\ last'.err = ErrNil

(***************************************************************************)
(* C39: from any state reachable by DepositPackage and RetrievePackage*    *)
(* calls, once no further package is deposited and the caller retrieves    *)
(* every stored package, by item id or by locker id in any order, the pool *)
(* eventually has its bookkeeping of right after NewInventory, and keeps   *)
(* it: every locker Empty, the free list of every class holding all of its *)
(* lockers, every VirtualCapacity at its initial value, LockersByPackageId *)
(* empty.                                                                  *)
(***************************************************************************)
C39_RetrievingEverythingRestoresThePool ==
    (<>[][~DepositDone]_vars) => <>[]PoolAsBuilt


\* two different candidates for req are equal in VirtualCapacity and in volume
ExactTie(req) ==
    \E c, d \in Candidates(inv, req) :
        /\ c # d
        /\ VC(inv, c) = VC(inv, d)
        /\ VolumeOf(c) = VolumeOf(d)

\* the results of GetMostSuitableLockerSize for req, over every order in
\* which the range over inv.Sizes may visit the map
Selections(req) ==
    { GetMostSuitableLockerSize(inv, req, o) : o \in SizeOrders }

(***************************************************************************)
(* C40: GetMostSuitableLockerSize is deterministic up to exact ties.  In   *)
(* every pool state and for every request, when no two candidate classes   *)
(* are equal in both VirtualCapacity and volume, the returned class and    *)
(* error are the same for every order in which the size classes are        *)
(* enumerated; the result depends on the enumeration order only when two   *)
(* candidates tie on both.                                                 *)
(***************************************************************************)
C40_DeterministicUpToExactTies ==
    \A req \in RequestSizes :
        /\ ~ExactTie(req) => Cardinality(Selections(req)) = 1
        /\ Cardinality(Selections(req)) > 1 => ExactTie(req)

\* a call chose among several candidates, no two of them tied, in a pool
\* with an occupied locker: every enumeration order gives the returned class
C40_Witness ==
    /\ last.op = "GetMostSuitableLockerSize"
    /\ last.err = ErrNil
    /\ Cardinality(Candidates(inv, last.arg[1])) >= 2
    /\ ~ExactTie(last.arg[1])
    /\ SomeLockerOccupied
    /\ \A r \in Selections(last.arg[1]) : r.id = last.ret[1]

====
